---- MODULE Spec2Model ----
(***************************************************************************)
(* Model of the ReefNet Sensus Pro backend (src/src/reefnet_sensuspro.c),  *)
(* of the Suunto Vyper2 packet exchange (src/src/suunto_vyper2.c) and of   *)
(* the event-flags word of src/include/libdivecomputer/parser.h.           *)
(*                                                                         *)
(* Byte buffers are sequences of numbers 0..255; a C offset i is the       *)
(* element i + 1 of the sequence.  Status codes are the strings            *)
(* "SUCCESS", "INVALIDARGS", "DATAFORMAT", "IO", "TIMEOUT", "PROTOCOL",    *)
(* "CANCELLED"; "none" means that no call has returned yet.                *)
(***************************************************************************)
EXTENDS Integers, Sequences, FiniteSets, TLC

VARIABLES
    layout,     \* how the input buffer was laid out (records and raw bytes)
    data,       \* the buffer handed to reefnet_sensuspro_extract_dives
    devKind,    \* the handle: "null", "sensuspro" or "other" (another family)
    timestamp,  \* device->timestamp, the fingerprint cutoff
    lastSet,    \* the last successful setter: "open", "fp0", "fp4", "ts"
    setrc,      \* status of the last set_fingerprint / set_timestamp call
    callback,   \* whether the callback pointer is non-NULL
    pc,         \* "idle", "scan", "done" or "ub" (a read outside the buffer)
    previous,   \* extract_dives: exclusive upper bound of the footer search
    current,    \* extract_dives: scanning cursor
    accepted,   \* starts of the records that passed the footer and cutoff tests
    calls,      \* the callback invocations made so far, in order
    result,     \* status returned by extract_dives
    cancelled,  \* the handle's cancellation flag (device_is_cancelled)
    ppc,        \* suunto_vyper2_device_packet: position in the call
    command,    \* packet: the command bytes (csize = Len(command))
    asize,      \* packet: the size of the expected answer
    psize,      \* packet: the size of the payload inside the answer
    answer,     \* packet: the bytes the read stored in answer[]
    sawCancel,  \* packet: what device_is_cancelled returned at line 173
    ops,        \* the transport calls issued by the current operation
    prc,        \* status returned by the current packet exchange
    returns,    \* the packet exchanges that have returned, in order
    spc,        \* reefnet_sensuspro_device_dump: position in the call
    brk,        \* the break condition on the sensuspro line (0 or 1)
    handshake,  \* device->handshake
    devtime,    \* device->devtime
    systime,    \* device->systime
    buffer,     \* the caller's dc_buffer_t: [null, bytes]
    events,     \* the events the current dump has emitted, in order
    progress,   \* dump: progress.current
    nbytes,     \* dump: number of bytes received so far
    image,      \* dump: the bytes stored in answer[] so far
    wire,       \* what the dive computer sends for its memory and CRC
    dops,       \* the transport calls issued by the current operation
    drc,        \* status returned by the current dump or write_interval
    dumps,      \* number of sensuspro operations started
    sc,         \* the sensuspro call made last: [op, rc, data]
    frame,      \* handshake: the bytes a complete read stored in handshake[]
    lc,         \* the open / close call in progress and its resources
    vc,         \* the vyper2 call made last and its handle: [op, h, rc]
    fl          \* event flags: the components, the packed word, the unpacking

extractVars == <<layout, data, devKind, timestamp, lastSet, setrc, callback,
                 pc, previous, current, accepted, calls, result>>

packetVars == <<cancelled, ppc, command, asize, psize, answer, sawCancel, ops,
                prc, returns>>

dumpVars == <<spc, brk, handshake, devtime, systime, buffer, events, progress,
              nbytes, image, wire, dops, drc, dumps, sc, frame>>

vars == <<extractVars, packetVars, dumpVars, lc, vc, fl>>

(***************************************************************************)
(* Bounds.                                                                 *)
(***************************************************************************)
\* number of pieces (records or raw byte runs) an input buffer is made of
MaxRecs == 2

\* number of packet exchanges on one handle
MaxPackets == 2

\* the largest value of an unsigned int (UINT_MAX, 2^32 - 1 in the build),
\* scaled down so that buffers of almost that size can be enumerated
UintMax == 63

\* the value an unsigned int holds after an addition or subtraction
Uint(x) == x % (UintMax + 1)

(***************************************************************************)
(* Bytes and codecs.                                                       *)
(***************************************************************************)
header == <<0, 0, 0, 0>>
footer == <<255, 255>>

\* array_uint32_le: little-endian decode of 4 bytes
array_uint32_le(b) == b[1] + 256 * b[2] + 65536 * b[3] + 16777216 * b[4]

\* the 4 bytes a device stores for the 32-bit value v (least significant first)
LE32(v) == << v % 256, (v \div 256) % 256, (v \div 65536) % 256,
              (v \div 16777216) % 256 >>

(***************************************************************************)
(* Input buffers.  A piece is a dive record                                *)
(*   header, 2 filler bytes, timestamp (LE), pad, footer                   *)
(* or a run of raw bytes (fill and ts unused).                             *)
(***************************************************************************)
Rec(fill, ts, pad) == [kind |-> "rec", fill |-> fill, ts |-> ts, pad |-> pad]
Raw(bytes) == [kind |-> "raw", fill |-> <<>>, ts |-> 0, pad |-> bytes]

Timestamps == {0, 50, 100, 256}

RecPieces == { Rec(<<1, 1>>, 50, <<>>),
               Rec(<<1, 1>>, 100, <<1>>),
               Rec(<<1, 1>>, 256, <<>>),
               Rec(<<1, 1>>, 0, <<>>),
               Rec(<<0, 0>>, 50, <<>>),
               Rec(<<1, 1>>, 100, <<0>>),
               Rec(<<1, 1>>, 50, <<255>>) }

RawPieces == { Raw(<<0, 0, 0, 0>>), Raw(<<1>>), Raw(<<0, 0, 0, 0, 1>>) }

Pieces == RecPieces \cup RawPieces

PieceBytes(p) ==
    IF p.kind = "rec"
    THEN header \o p.fill \o LE32(p.ts) \o p.pad \o footer
    ELSE p.pad

RECURSIVE Flatten(_)
Flatten(ps) ==
    IF ps = <<>> THEN <<>> ELSE PieceBytes(Head(ps)) \o Flatten(Tail(ps))

Layouts == UNION { [1..n -> Pieces] : n \in 0..MaxRecs }

(***************************************************************************)
(* reefnet_sensuspro_extract_dives                                         *)
(***************************************************************************)
size == Len(data)

InBuffer(i) == i >= 0 /\ i < size

\* memcmp (data + at, pattern, sizeof (pattern)) == 0
Matches(at, pattern) ==
    \A k \in 1..Len(pattern) : InBuffer(at + k - 1) /\ data[at + k] = pattern[k]

\* The loop of lines 405-414 from its first offset: iteration k compares at
\* offset first + k (as an unsigned int).  The loop stops at the first
\* iteration whose test fails (test[o] is the loop test at offset o), whose
\* compare leaves the buffer, or whose compare finds the footer; the result
\* is the offset where it stops, whether it stopped on a footer, and whether
\* a compare left the buffer.
FooterLoop(first, test) ==
    LET at(k) == Uint(first + k)
        Ends(k) == ~test[at(k)]
        Leaves(k) == ~InBuffer(at(k) + 1)
        Stops(k) == Ends(k) \/ Leaves(k) \/ Matches(at(k), footer)
        n == CHOOSE k \in 0..(UintMax + 1) :
                 Stops(k) /\ \A j \in 0..(k - 1) : ~Stops(j)
    IN  [found  |-> ~Ends(n) /\ ~Leaves(n),
         offset |-> at(n),
         oob    |-> ~Ends(n) /\ Leaves(n)]

\* a footer search that stops one offset early (offset + 2 < previous)
FooterSearch_OffByOne(offset, prev) ==
    FooterLoop(offset, [o \in 0..UintMax |-> Uint(o + 2) < prev])

\* the footer search of lines 405-414: while (offset + 2 <= previous)
FooterSearch(offset, prev) ==
    FooterLoop(offset, [o \in 0..UintMax |-> Uint(o + 2) <= prev])

\* a handle check that only rejects NULL
device_is_reefnet_sensuspro_NotNull == devKind # "null"

\* device_is_reefnet_sensuspro
device_is_reefnet_sensuspro == devKind = "sensuspro"

\* the byte strings a caller passes to set_fingerprint (sizes 0, 2 and 4)
FingerprintInputs == {<<>>, <<50, 0>>} \cup {LE32(t) : t \in Timestamps}

\* the values a caller passes to set_timestamp
TimestampInputs == {0, 100}

\* no vyper2 handle is in use
PacketOff ==
    /\ cancelled = FALSE
    /\ ppc = "off"
    /\ command = <<>>
    /\ asize = 0
    /\ psize = 0
    /\ answer = <<>>
    /\ sawCancel = FALSE
    /\ ops = <<>>
    /\ prc = "none"
    /\ returns = <<>>

\* REEFNET_SENSUSPRO_HANDSHAKE_SIZE (reefnet_sensuspro.h defines it as 10)
HandshakeSize == 10

\* the all-zero handshake of line 94
ZeroHandshake == [k \in 1..HandshakeSize |-> 0]

\* no event-flags word is modelled
NoFlags == [begin |-> FALSE, end |-> FALSE, severity |-> 0, type |-> 0]

FlagsOff == [pc |-> "off", in |-> NoFlags, flags |-> 0, changed |-> "none",
             out |-> NoFlags]

\* no vyper2 call has been made
NoVCall == [op |-> "none", h |-> "none", rc |-> "none"]

\* no open or close call is modelled
OpenOff ==
    lc = [pc |-> "off", family |-> "none", out |-> "unwritten",
          mem |-> "none", frees |-> 0, port |-> "none", closes |-> 0,
          rc |-> "none", crc |-> "none", h |-> "none", log |-> <<>>,
          hist |-> <<>>, opens |-> 0]

\* no sensuspro call has been made
NoCall == [op |-> "none", rc |-> "none", data |-> <<>>]

\* no dump is in use
DumpOff ==
    /\ spc = "off"
    /\ brk = 0
    /\ handshake = ZeroHandshake
    /\ devtime = 0
    /\ systime = -1
    /\ buffer = [null |-> TRUE, bytes |-> <<>>]
    /\ events = <<>>
    /\ progress = 0
    /\ nbytes = 0
    /\ image = <<>>
    /\ wire = <<>>
    /\ dops = <<>>
    /\ drc = "none"
    /\ dumps = 0
    /\ sc = NoCall
    /\ frame = <<>>

\* State after reefnet_sensuspro_device_open (timestamp = 0), or no
\* sensuspro device at all; the buffer and the callback are the caller's.
InitExtract ==
    /\ layout \in Layouts
    /\ data = Flatten(layout)
    /\ devKind \in {"null", "sensuspro", "other"}
    /\ timestamp = 0
    /\ lastSet = "open"
    /\ setrc = "none"
    /\ callback \in BOOLEAN
    /\ pc = "idle"
    /\ previous = 0
    /\ current = 0
    /\ accepted = <<>>
    /\ calls = <<>>
    /\ result = "none"
    /\ PacketOff
    /\ DumpOff
    /\ OpenOff
    /\ vc = NoVCall
    /\ fl = FlagsOff

\* a set_fingerprint whose size-0 branch leaves the cutoff as it was
SetFingerprint_KeepOnEmpty(fp) ==
    /\ pc = "idle"
    /\ IF ~device_is_reefnet_sensuspro
       THEN /\ setrc' = "INVALIDARGS"
            /\ UNCHANGED <<timestamp, lastSet>>
       ELSE IF Len(fp) # 0 /\ Len(fp) # 4
            THEN /\ setrc' = "INVALIDARGS"
                 /\ UNCHANGED <<timestamp, lastSet>>
            ELSE /\ timestamp' = IF Len(fp) # 0 THEN array_uint32_le(fp)
                                                ELSE timestamp
                 /\ lastSet' = IF Len(fp) # 0 THEN "fp4" ELSE "fp0"
                 /\ setrc' = "SUCCESS"
    /\ UNCHANGED <<layout, data, devKind, callback, pc, previous, current,
                   accepted, calls, result>>
    /\ UNCHANGED <<packetVars, dumpVars, lc, vc, fl>>

\* a set_fingerprint that resets the cutoff when it rejects the size
SetFingerprint_ClearsOnReject(fp) ==
    /\ pc = "idle"
    /\ IF ~device_is_reefnet_sensuspro
       THEN /\ setrc' = "INVALIDARGS"
            /\ UNCHANGED <<timestamp, lastSet>>
       ELSE IF Len(fp) # 0 /\ Len(fp) # 4
            THEN /\ setrc' = "INVALIDARGS"
                 /\ timestamp' = 0
                 /\ UNCHANGED lastSet
            ELSE /\ timestamp' = IF Len(fp) # 0 THEN array_uint32_le(fp) ELSE 0
                 /\ lastSet' = IF Len(fp) # 0 THEN "fp4" ELSE "fp0"
                 /\ setrc' = "SUCCESS"
    /\ UNCHANGED <<layout, data, devKind, callback, pc, previous, current,
                   accepted, calls, result>>
    /\ UNCHANGED <<packetVars, dumpVars, lc, vc, fl>>

\* reefnet_sensuspro_device_set_fingerprint (abstract, fp, Len(fp))
SetFingerprint(fp) ==
    /\ pc = "idle"
    /\ IF ~device_is_reefnet_sensuspro
       THEN /\ setrc' = "INVALIDARGS"
            /\ UNCHANGED <<timestamp, lastSet>>
       ELSE IF Len(fp) # 0 /\ Len(fp) # 4
            THEN /\ setrc' = "INVALIDARGS"
                 /\ UNCHANGED <<timestamp, lastSet>>
            ELSE /\ timestamp' = IF Len(fp) # 0 THEN array_uint32_le(fp) ELSE 0
                 /\ lastSet' = IF Len(fp) # 0 THEN "fp4" ELSE "fp0"
                 /\ setrc' = "SUCCESS"
    /\ UNCHANGED <<layout, data, devKind, callback, pc, previous, current,
                   accepted, calls, result>>
    /\ UNCHANGED <<packetVars, dumpVars, lc, vc, fl>>

\* reefnet_sensuspro_device_set_timestamp (abstract, t)
SetTimestamp(t) ==
    /\ pc = "idle"
    /\ IF ~device_is_reefnet_sensuspro
       THEN /\ setrc' = "INVALIDARGS"
            /\ UNCHANGED <<timestamp, lastSet>>
       ELSE /\ timestamp' = t
            /\ lastSet' = "ts"
            /\ setrc' = "SUCCESS"
    /\ UNCHANGED <<layout, data, devKind, callback, pc, previous, current,
                   accepted, calls, result>>
    /\ UNCHANGED <<packetVars, dumpVars, lc, vc, fl>>

\* line 398: where the scanning cursor starts
StartCursor == IF size >= 4 THEN size - 4 ELSE 0

\* a cursor that does not skip the 4 bytes below the record
NextCursor_NoSkip(c) == c

\* line 430: the cursor after the record that starts at c
NextCursor(c) == IF c >= 4 THEN c - 4 ELSE 0

\* a cutoff test that lets the record with the cutoff's own timestamp pass
CutoffReached_Strict(ts) == devKind # "null" /\ ts < timestamp

\* line 422: the cutoff test on a record's timestamp ts
CutoffReached(ts) == devKind # "null" /\ ts <= timestamp

\* a loop that ignores the callback's return value
StopRequested_Ignored(ret) == FALSE

\* line 425: the callback's return value ret asks to stop
StopRequested(ret) == ~ret

\* extract_dives, lines 388-398: the handle check and the cursors' start
ExtractStart ==
    /\ pc \in {"idle", "ready"}
    /\ IF devKind # "null" /\ ~device_is_reefnet_sensuspro
       THEN /\ result' = "INVALIDARGS"
            /\ pc' = "done"
            /\ UNCHANGED <<previous, current>>
       ELSE /\ previous' = size
            /\ current' = StartCursor
            /\ pc' = "scan"
            /\ UNCHANGED result
    /\ UNCHANGED <<layout, data, devKind, timestamp, lastSet, setrc, callback,
                   accepted, calls>>
    /\ UNCHANGED <<packetVars, dumpVars, lc, vc, fl>>

\* an invocation whose fingerprint points at the filler bytes
Invocation_WrongFingerprint(c, end, ret) ==
    [start |-> c, size |-> Uint(end - c), fp |-> c + 4, fsize |-> 4, ret |-> ret]

\* one callback invocation for the record [c, end), with its return value
Invocation(c, end, ret) ==
    [start |-> c, size |-> Uint(end - c), fp |-> c + 6, fsize |-> 4, ret |-> ret]

\* extract_dives, lines 399-432: one iteration of the outer loop
ExtractStep ==
    /\ pc = "scan"
    /\ current > 0
    /\ LET c == current - 1
           r == FooterSearch(Uint(c + 10), previous)
       IN  IF ~(InBuffer(c) /\ InBuffer(c + 3))
           THEN /\ pc' = "ub"
                /\ current' = c
                /\ UNCHANGED <<previous, accepted, calls, result>>
           ELSE IF ~Matches(c, header)
           THEN /\ current' = c
                /\ UNCHANGED <<pc, previous, accepted, calls, result>>
           ELSE IF r.oob \/ (r.found /\ ~InBuffer(c + 9))
           THEN /\ pc' = "ub"
                /\ current' = c
                /\ UNCHANGED <<previous, accepted, calls, result>>
           ELSE IF ~r.found
           THEN /\ result' = "DATAFORMAT"
                /\ pc' = "done"
                /\ current' = c
                /\ UNCHANGED <<previous, accepted, calls>>
           ELSE IF CutoffReached(array_uint32_le(SubSeq(data, c + 7, c + 10)))
           THEN /\ result' = "SUCCESS"
                /\ pc' = "done"
                /\ current' = c
                /\ UNCHANGED <<previous, accepted, calls>>
           ELSE IF ~callback
           THEN /\ previous' = c
                /\ current' = NextCursor(c)
                /\ accepted' = Append(accepted, c)
                /\ UNCHANGED <<pc, calls, result>>
           ELSE \E ret \in BOOLEAN :
                /\ calls' = Append(calls, Invocation(c, Uint(r.offset + 2), ret))
                /\ accepted' = Append(accepted, c)
                /\ IF StopRequested(ret)
                   THEN /\ result' = "SUCCESS"
                        /\ pc' = "done"
                        /\ current' = c
                        /\ UNCHANGED previous
                   ELSE /\ previous' = c
                        /\ current' = NextCursor(c)
                        /\ UNCHANGED <<pc, result>>
    /\ UNCHANGED <<layout, data, devKind, timestamp, lastSet, setrc, callback>>
    /\ UNCHANGED <<packetVars, dumpVars, lc, vc, fl>>

\* extract_dives, lines 399 and 434: the loop ends and the call returns
ExtractReturn ==
    /\ pc = "scan"
    /\ current = 0
    /\ result' = "SUCCESS"
    /\ pc' = "done"
    /\ UNCHANGED <<layout, data, devKind, timestamp, lastSet, setrc, callback,
                   previous, current, accepted, calls>>
    /\ UNCHANGED <<packetVars, dumpVars, lc, vc, fl>>

NextExtract ==
    \/ \E fp \in FingerprintInputs : SetFingerprint(fp)
    \/ \E t \in TimestampInputs : SetTimestamp(t)
    \/ ExtractStart
    \/ ExtractStep
    \/ ExtractReturn

Spec == InitExtract /\ [][NextExtract]_vars

(***************************************************************************)
(* Buffers whose size is UINT_MAX or just below.  A wide buffer of s bytes *)
(* holds a start marker at offset h, the bytes FF FF at offset f and the   *)
(* byte 1 everywhere else.                                                 *)
(***************************************************************************)
WideBuffer(s, h, f) ==
    [k \in 1..s |-> IF k - 1 \in h..(h + 3) THEN 0
                    ELSE IF k - 1 \in f..(f + 1) THEN 255
                    ELSE 1]

WideSizes == (UintMax - 7)..UintMax

\* the marker in the last 12, 11, 8 or 5 bytes; FF FF at the end or at offset 4
WideLayouts ==
    { <<Raw(WideBuffer(s, s - d, IF low THEN 4 ELSE s - 2))>> :
        s \in WideSizes, d \in {12, 11, 8, 5}, low \in BOOLEAN }

\* State after reefnet_sensuspro_device_open with a small or a wide buffer
InitWide ==
    /\ layout \in Layouts \cup WideLayouts
    /\ data = Flatten(layout)
    /\ devKind \in {"null", "sensuspro", "other"}
    /\ timestamp = 0
    /\ lastSet = "open"
    /\ setrc = "none"
    /\ callback \in BOOLEAN
    /\ pc = "idle"
    /\ previous = 0
    /\ current = 0
    /\ accepted = <<>>
    /\ calls = <<>>
    /\ result = "none"
    /\ PacketOff
    /\ DumpOff
    /\ OpenOff
    /\ vc = NoVCall
    /\ fl = FlagsOff

SpecWide == InitWide /\ [][NextExtract]_vars

\* a started extraction goes on: the loop of lines 399-432 and the return
\* of line 434 are steps of the calling thread
SpecWideLive ==
    /\ InitWide
    /\ [][NextExtract]_vars
    /\ WF_vars(ExtractStep)
    /\ WF_vars(ExtractReturn)

(***************************************************************************)
(* Vocabulary of the extraction claims.                                    *)
(***************************************************************************)
NRecs == Len(layout)

RECURSIVE StartOf(_)
StartOf(i) == IF i <= 1 THEN 0 ELSE StartOf(i - 1) + Len(PieceBytes(layout[i - 1]))

EndOf(i) == StartOf(i) + Len(PieceBytes(layout[i]))

\* the buffer consists of dive records only
AllRecords == \A i \in 1..NRecs : layout[i].kind = "rec"

\* timestamps strictly increase with the offset
TsIncreasing ==
    \A i, j \in 1..NRecs : i < j => layout[i].ts < layout[j].ts

RecStarts == {StartOf(i) : i \in 1..NRecs}

\* the only 4 zero bytes in the buffer are the records' headers
NoStrayHeader ==
    \A p \in 0..(size - 4) : Matches(p, header) => p \in RecStarts

\* the only 0xFFFF at or after a record's start + 10 is its last two bytes
NoStrayFooter ==
    \A i \in 1..NRecs :
        \A o \in (StartOf(i) + 10)..(EndOf(i) - 3) : ~Matches(o, footer)

MarkerFree == NoStrayHeader /\ NoStrayFooter

\* the handle carries no cutoff: no device, or a device with timestamp 0
NoCutoff == devKind = "null" \/ (devKind = "sensuspro" /\ timestamp = 0)

\* a callback is given and every invocation so far asked to continue
AllContinue == callback /\ \A k \in 1..Len(calls) : calls[k].ret

\* the value the fingerprint bytes of an invocation decode to
FingerprintValue(call) ==
    array_uint32_le(SubSeq(data, call.fp + 1, call.fp + call.fsize))

\* the invocations for records NRecs, NRecs - 1, ..., from (newest first)
ExpectedCalls(from) ==
    [k \in 1..(NRecs - from + 1) |->
        Invocation(StartOf(NRecs + 1 - k), EndOf(NRecs + 1 - k), TRUE)]

\* every invocation carries the 4 timestamp bytes of the record at its start
FingerprintsRight ==
    \A k \in 1..Len(calls) :
        \E i \in 1..NRecs :
            /\ calls[k].start = StartOf(i)
            /\ calls[k].fp = StartOf(i) + 6
            /\ calls[k].fsize = 4
            /\ FingerprintValue(calls[k]) = layout[i].ts

Finished == pc = "done" /\ result # "INVALIDARGS"

(***************************************************************************)
(* C1 (as stated): for every buffer of N well-formed records with strictly *)
(* increasing timestamps, extraction without cutoff calls back exactly N   *)
(* times, newest first, with each record's byte range and timestamp, and   *)
(* returns success.                                                        *)
(***************************************************************************)
C1_Original ==
    (Finished /\ AllRecords /\ TsIncreasing /\ NoCutoff /\ AllContinue)
        => (result = "SUCCESS" /\ calls = ExpectedCalls(1) /\ FingerprintsRight)

(***************************************************************************)
(* C1 (amended): the same, for buffers whose records hold no stray marker: *)
(* no 4 zero bytes except each header, no 0xFFFF at or after start + 10    *)
(* except each record's last two bytes.                                    *)
(***************************************************************************)
C1_ExtractAll ==
    (Finished /\ AllRecords /\ MarkerFree /\ TsIncreasing /\ NoCutoff
              /\ AllContinue)
        => (result = "SUCCESS" /\ calls = ExpectedCalls(1) /\ FingerprintsRight)

C1_Witness ==
    /\ Finished /\ AllRecords /\ MarkerFree /\ TsIncreasing /\ NoCutoff
    /\ AllContinue
    /\ NRecs >= 2
    /\ Len(calls) = NRecs
    /\ calls[1].start > calls[2].start

(***************************************************************************)
(* C2 (as stated): with the cutoff set to the timestamp of record i,       *)
(* exactly the records at offsets above record i are called back, and the  *)
(* result is success.                                                      *)
(***************************************************************************)
C2_Original ==
    \A i \in 1..NRecs :
        (Finished /\ AllRecords /\ TsIncreasing /\ AllContinue
                  /\ devKind = "sensuspro" /\ timestamp = layout[i].ts)
            => (result = "SUCCESS" /\ calls = ExpectedCalls(i + 1))

(***************************************************************************)
(* C2 (amended): the same, for buffers whose records hold no stray marker. *)
(***************************************************************************)
C2_CutoffExcludes ==
    \A i \in 1..NRecs :
        (Finished /\ AllRecords /\ MarkerFree /\ TsIncreasing /\ AllContinue
                  /\ devKind = "sensuspro" /\ timestamp = layout[i].ts)
            => (result = "SUCCESS" /\ calls = ExpectedCalls(i + 1)
                /\ FingerprintsRight)

C2_Witness ==
    /\ Finished /\ AllRecords /\ MarkerFree /\ TsIncreasing /\ AllContinue
    /\ devKind = "sensuspro"
    /\ NRecs >= 2
    /\ timestamp = layout[1].ts
    /\ Len(calls) = NRecs - 1
    /\ current = StartOf(1)

(***************************************************************************)
(* C3 (as stated): with no fingerprint in effect (never set since open, or *)
(* set_fingerprint with size 0) every well-formed record is called back,   *)
(* whatever its timestamp, a timestamp of 0 included.  Stated here for     *)
(* records whose only stray marker is a zero timestamp itself.             *)
(***************************************************************************)
NoFingerprint == devKind = "sensuspro" /\ lastSet \in {"open", "fp0"}

StrayOnlyZeroTimestamp ==
    /\ NoStrayFooter
    /\ \A p \in 0..(size - 4) :
          Matches(p, header) =>
              \/ p \in RecStarts
              \/ \E i \in 1..NRecs : p = StartOf(i) + 6 /\ layout[i].ts = 0

C3_Original ==
    (Finished /\ NoFingerprint /\ AllRecords /\ StrayOnlyZeroTimestamp
              /\ AllContinue)
        => (result = "SUCCESS" /\ calls = ExpectedCalls(1))

(***************************************************************************)
(* C3 (amended): with no fingerprint in effect every record of a buffer of *)
(* records without stray markers is called back, whatever its timestamp    *)
(* and in whatever order the timestamps come; such a record's timestamp is *)
(* never 0, because four zero timestamp bytes are a start marker.          *)
(***************************************************************************)
C3_NoFingerprintExtractsAll ==
    (Finished /\ NoFingerprint /\ AllRecords /\ MarkerFree /\ AllContinue)
        => /\ result = "SUCCESS"
           /\ calls = ExpectedCalls(1)
           /\ FingerprintsRight
           /\ \A i \in 1..NRecs : layout[i].ts # 0

C3_Witness ==
    /\ Finished /\ NoFingerprint /\ AllRecords /\ MarkerFree /\ AllContinue
    /\ lastSet = "fp0"
    /\ NRecs >= 2
    /\ layout[1].ts > layout[2].ts
    /\ Len(calls) = NRecs

(***************************************************************************)
(* C4 (as stated): a buffer holding a start marker with no footer between  *)
(* the marker's offset + 10 and the previous boundary yields the           *)
(* data-format error, wherever the marker sits, the last bytes of the      *)
(* buffer included.  Stated for runs that no cutoff and no stop cut short. *)
(***************************************************************************)
AcceptedStarts == {accepted[k] : k \in 1..Len(accepted)}

\* the previous boundary of offset p: the lowest accepted start above p, or
\* the end of the buffer
PrevBoundary(p) ==
    LET above == {c \in AcceptedStarts : c > p}
    IN  IF above = {} THEN size
        ELSE CHOOSE c \in above : \A d \in above : c <= d

NoFooterFor(p) ==
    \A o \in (p + 10)..(PrevBoundary(p) - 2) : ~Matches(o, footer)

Tested(p) ==
    /\ p >= current
    /\ p <= size - 5
    /\ \A c \in AcceptedStarts : ~(c - 4 <= p /\ p < c)

ExampleBuffer ==
    /\ NRecs = 2
    /\ AllRecords
    /\ layout[1].ts = 100
    /\ layout[2].ts = 50
    /\ MarkerFree

C5_Original ==
    (Finished /\ ExampleBuffer /\ NoCutoff /\ AllContinue)
        => /\ Len(calls) = 2
           /\ FingerprintValue(calls[1]) = 100
           /\ FingerprintValue(calls[2]) = 50

(***************************************************************************)
(* C5 (amended): for that buffer extraction calls back the record at the   *)
(* higher offset first, the timestamp-50 record, and the timestamp-100     *)
(* record second; the fingerprint bytes decode to 50 and to 100.           *)
(***************************************************************************)
C5_ExampleOrder ==
    (Finished /\ ExampleBuffer /\ NoCutoff /\ AllContinue)
        => /\ result = "SUCCESS"
           /\ Len(calls) = 2
           /\ calls[1].start = StartOf(2) /\ FingerprintValue(calls[1]) = 50
           /\ calls[2].start = StartOf(1) /\ FingerprintValue(calls[2]) = 100
           /\ calls[1].fsize = 4 /\ calls[2].fsize = 4

C5_Witness ==
    /\ Finished /\ ExampleBuffer /\ NoCutoff /\ AllContinue
    /\ Len(calls) = 2
    /\ Len(layout[1].pad) > 0

(***************************************************************************)
(* C6: once the callback has returned "stop" on its first invocation, no   *)
(* further invocation is made and extraction has returned success,         *)
(* whatever the lower offsets of the buffer hold.                          *)
(***************************************************************************)
C6_StopAfterFirst ==
    (Len(calls) >= 1 /\ ~calls[1].ret)
        => (Len(calls) = 1 /\ pc = "done" /\ result = "SUCCESS")

\* stopped at the first record while a start marker without footer lies below
C6_Witness ==
    /\ pc = "done"
    /\ Len(calls) = 1
    /\ ~calls[1].ret
    /\ result = "SUCCESS"
    /\ \E p \in 0..(calls[1].start - 5) :
          Matches(p, header) /\ \A o \in (p + 10)..(calls[1].start - 2) :
                                     ~Matches(o, footer)

(***************************************************************************)
(* suunto_vyper2_device_packet                                             *)
(***************************************************************************)
\* an EXITCODE that reports every failed transfer as a timeout
EXITCODE_AlwaysTimeout(rc) == "TIMEOUT"

\* EXITCODE (rc): the status for a transfer count that is not the requested one
EXITCODE(rc) == IF rc = -1 THEN "IO" ELSE "TIMEOUT"

\* bitwise exclusive or of two naturals
RECURSIVE Xor(_, _)
Xor(a, b) ==
    IF a = 0 THEN b
    ELSE IF b = 0 THEN a
    ELSE ((a + b) % 2) + 2 * Xor(a \div 2, b \div 2)

\* checksum_xor_uint8 (bytes, Len(bytes), init)
RECURSIVE checksum_xor_uint8(_, _)
checksum_xor_uint8(bytes, init) ==
    IF bytes = <<>> THEN init
    ELSE checksum_xor_uint8(Tail(bytes), Xor(init, Head(bytes)))

\* array_uint16_be: big-endian decode of 2 bytes
array_uint16_be(b) == 256 * b[1] + b[2]

\* the packets the callers send: a version request (no parameters echoed)
\* and a memory read (3 parameter bytes echoed), each with its answer size
\* and the payload the dive computer answers with
PacketInputs ==
    { [command |-> <<15, 0, 0, 15>>, asize |-> 5, psize |-> 1, payload |-> <<7>>],
      [command |-> <<5, 0, 3, 1, 2, 1, 4>>, asize |-> 8, psize |-> 1,
       payload |-> <<9>>] }

\* the well-formed answer to a packet: echo byte, big-endian length, echoed
\* parameters, payload, XOR checksum
GoodAnswer(in) ==
    LET body == << in.command[1], (in.asize - 4) \div 256, (in.asize - 4) % 256 >>
                \o SubSeq(in.command, 4, in.asize - in.psize - 1)
                \o in.payload
    IN  Append(body, checksum_xor_uint8(body, 0))

\* the answers a line may deliver: the good answer with any of its bytes
\* changed in its lowest bit
Answers(in) ==
    { [k \in 1..in.asize |->
          IF k \in F THEN Xor(GoodAnswer(in)[k], 1) ELSE GoodAnswer(in)[k]] :
      F \in SUBSET (1..in.asize) }

\* the counts a transfer of n bytes may return: -1 is the hard failure
TransferCounts(n) == {-1, 0, n - 1, n, n + 1}

\* a validation that skips the header check
Validate_NoHeaderCheck(cmd, ans, asz, psz) ==
    IF array_uint16_be(SubSeq(ans, 2, 3)) + 4 # asz THEN "PROTOCOL"
    ELSE IF SubSeq(cmd, 4, asz - psz - 1) # SubSeq(ans, 4, asz - psz - 1)
    THEN "PROTOCOL"
    ELSE IF ans[asz] # checksum_xor_uint8(SubSeq(ans, 1, asz - 1), 0)
    THEN "PROTOCOL"
    ELSE "SUCCESS"

\* lines 198-224: header, size, parameters, checksum
Validate(cmd, ans, asz, psz) ==
    IF ans[1] # cmd[1] THEN "PROTOCOL"
    ELSE IF array_uint16_be(SubSeq(ans, 2, 3)) + 4 # asz THEN "PROTOCOL"
    ELSE IF SubSeq(cmd, 4, asz - psz - 1) # SubSeq(ans, 4, asz - psz - 1)
    THEN "PROTOCOL"
    ELSE IF ans[asz] # checksum_xor_uint8(SubSeq(ans, 1, asz - 1), 0)
    THEN "PROTOCOL"
    ELSE "SUCCESS"

\* State after suunto_vyper2_device_open: no exchange yet, flag clear
InitPacket ==
    /\ layout = <<>>
    /\ data = <<>>
    /\ devKind = "vyper2"
    /\ timestamp = 0
    /\ lastSet = "open"
    /\ setrc = "none"
    /\ callback = FALSE
    /\ pc = "off"
    /\ previous = 0
    /\ current = 0
    /\ accepted = <<>>
    /\ calls = <<>>
    /\ result = "none"
    /\ cancelled = FALSE
    /\ ppc = "idle"
    /\ command = <<>>
    /\ asize = 0
    /\ psize = 0
    /\ answer = <<>>
    /\ sawCancel = FALSE
    /\ ops = <<>>
    /\ prc = "none"
    /\ returns = <<>>
    /\ DumpOff
    /\ OpenOff
    /\ vc = NoVCall
    /\ fl = FlagsOff

\* the record kept of an exchange that returns rc after the transport calls o
Returned(rc, saw, o) ==
    [rc |-> rc, saw |-> saw, flag |-> cancelled, nops |-> Len(o)]

\* another thread sets the cancellation flag
Cancel ==
    /\ ppc # "off"
    /\ ~cancelled
    /\ cancelled' = TRUE
    /\ UNCHANGED <<ppc, command, asize, psize, answer, sawCancel, ops, prc,
                   returns>>
    /\ UNCHANGED <<extractVars, dumpVars, lc, vc, fl>>

\* an entry that sleeps before it looks at the cancellation flag
PacketEnter_SleepFirst(in) ==
    /\ ppc \in {"idle", "done"}
    /\ Len(returns) < MaxPackets
    /\ command' = in.command
    /\ asize' = in.asize
    /\ psize' = in.psize
    /\ answer' = <<>>
    /\ sawCancel' = cancelled
    /\ ops' = <<[op |-> "sleep", arg |-> 600, n |-> 0]>>
    /\ IF cancelled
       THEN /\ ppc' = "done"
            /\ prc' = "CANCELLED"
            /\ returns' = Append(returns, Returned("CANCELLED", TRUE, ops'))
       ELSE /\ ppc' = "rtshigh"
            /\ prc' = "none"
            /\ UNCHANGED returns
    /\ UNCHANGED cancelled
    /\ vc' = [op |-> "packet", h |-> "own", rc |-> "none"]
    /\ UNCHANGED <<extractVars, dumpVars, lc, fl>>

\* lines 169-174: the call and its cancellation check
PacketEnter(in) ==
    /\ ppc \in {"idle", "done"}
    /\ Len(returns) < MaxPackets
    /\ command' = in.command
    /\ asize' = in.asize
    /\ psize' = in.psize
    /\ answer' = <<>>
    /\ sawCancel' = cancelled
    /\ ops' = <<>>
    /\ IF cancelled
       THEN /\ ppc' = "done"
            /\ prc' = "CANCELLED"
            /\ returns' = Append(returns, Returned("CANCELLED", TRUE, <<>>))
       ELSE /\ ppc' = "sleep"
            /\ prc' = "none"
            /\ UNCHANGED returns
    /\ UNCHANGED cancelled
    /\ vc' = [op |-> "packet", h |-> "own", rc |-> "none"]
    /\ UNCHANGED <<extractVars, dumpVars, lc, fl>>

\* line 176: serial_sleep (device->port, 600)
PacketSleep ==
    /\ ppc = "sleep"
    /\ ops' = Append(ops, [op |-> "sleep", arg |-> 600, n |-> 0])
    /\ ppc' = "rtshigh"
    /\ UNCHANGED <<cancelled, command, asize, psize, answer, sawCancel, prc,
                   returns>>
    /\ UNCHANGED <<extractVars, dumpVars, lc, vc, fl>>

\* line 179: serial_set_rts (device->port, 1)
PacketRtsHigh ==
    /\ ppc = "rtshigh"
    /\ ops' = Append(ops, [op |-> "rts", arg |-> 1, n |-> 0])
    /\ ppc' = "write"
    /\ UNCHANGED <<cancelled, command, asize, psize, answer, sawCancel, prc,
                   returns>>
    /\ UNCHANGED <<extractVars, dumpVars, lc, vc, fl>>

\* a write whose result is not looked at
PacketWrite_IgnoresShort(n) ==
    /\ ppc = "write"
    /\ ops' = Append(ops, [op |-> "write", arg |-> Len(command), n |-> n])
    /\ ppc' = "rtslow"
    /\ UNCHANGED <<prc, returns>>
    /\ UNCHANGED <<cancelled, command, asize, psize, answer, sawCancel>>
    /\ UNCHANGED <<extractVars, dumpVars, lc, vc, fl>>

\* lines 182-186: serial_write returns n
PacketWrite(n) ==
    /\ ppc = "write"
    /\ ops' = Append(ops, [op |-> "write", arg |-> Len(command), n |-> n])
    /\ IF n # Len(command)
       THEN /\ ppc' = "done"
            /\ prc' = EXITCODE(n)
            /\ returns' = Append(returns, Returned(EXITCODE(n), sawCancel, ops'))
       ELSE /\ ppc' = "rtslow"
            /\ UNCHANGED <<prc, returns>>
    /\ UNCHANGED <<cancelled, command, asize, psize, answer, sawCancel>>
    /\ UNCHANGED <<extractVars, dumpVars, lc, vc, fl>>

\* line 189: serial_set_rts (device->port, 0)
PacketRtsLow ==
    /\ ppc = "rtslow"
    /\ ops' = Append(ops, [op |-> "rts", arg |-> 0, n |-> 0])
    /\ ppc' = "read"
    /\ UNCHANGED <<cancelled, command, asize, psize, answer, sawCancel, prc,
                   returns>>
    /\ UNCHANGED <<extractVars, dumpVars, lc, vc, fl>>

\* a read that gives up when the cancellation flag is set
PacketRead_PollsCancel(n, a) ==
    /\ ppc = "read"
    /\ n = asize => Len(a) = asize
    /\ n # asize => a = <<>>
    /\ IF cancelled
       THEN /\ ppc' = "done"
            /\ prc' = "CANCELLED"
            /\ returns' = Append(returns, Returned("CANCELLED", sawCancel, ops))
            /\ UNCHANGED <<ops, answer>>
       ELSE /\ ops' = Append(ops, [op |-> "read", arg |-> asize, n |-> n])
            /\ answer' = a
            /\ IF n # asize
               THEN /\ ppc' = "done"
                    /\ prc' = EXITCODE(n)
                    /\ returns' = Append(returns,
                                         Returned(EXITCODE(n), sawCancel, ops'))
               ELSE /\ ppc' = "validate"
                    /\ UNCHANGED <<prc, returns>>
    /\ UNCHANGED <<cancelled, command, asize, psize, sawCancel>>
    /\ UNCHANGED <<extractVars, dumpVars, lc, vc, fl>>

\* lines 192-196: serial_read returns n and, when complete, the bytes a
PacketRead(n, a) ==
    /\ ppc = "read"
    /\ n = asize => Len(a) = asize
    /\ n # asize => a = <<>>
    /\ ops' = Append(ops, [op |-> "read", arg |-> asize, n |-> n])
    /\ answer' = a
    /\ IF n # asize
       THEN /\ ppc' = "done"
            /\ prc' = EXITCODE(n)
            /\ returns' = Append(returns, Returned(EXITCODE(n), sawCancel, ops'))
       ELSE /\ ppc' = "validate"
            /\ UNCHANGED <<prc, returns>>
    /\ UNCHANGED <<cancelled, command, asize, psize, sawCancel>>
    /\ UNCHANGED <<extractVars, dumpVars, lc, vc, fl>>

\* lines 198-224: the answer is validated and the call returns
PacketValidate ==
    /\ ppc = "validate"
    /\ prc' = Validate(command, answer, asize, psize)
    /\ ppc' = "done"
    /\ returns' = Append(returns, Returned(prc', sawCancel, ops))
    /\ UNCHANGED <<cancelled, command, asize, psize, answer, sawCancel, ops>>
    /\ UNCHANGED <<extractVars, dumpVars, lc, vc, fl>>

\* the input whose command is being exchanged
CurrentInput == CHOOSE in \in PacketInputs : in.command = command

\* the handles a caller can pass: the device itself, a device of another
\* family, NULL
Handles == {"own", "other", "null"}

\* the handles that are not a vyper2 device
BadHandles == {"other", "null"}

\* what a call can do once it has read device->port through a handle that
\* is no vyper2 device: stop the program, or go on with whatever it read
\* and return one of the statuses of the exchange
Undefined == {"crash", "SUCCESS", "IO", "TIMEOUT", "PROTOCOL"}

\* suunto_vyper2_device_packet with a handle h that is not a vyper2 device
\* (lines 171-176 make no handle check); flag: device_is_cancelled (h)
PacketForeign(h, flag) ==
    /\ ppc = "idle"
    /\ IF flag
       THEN /\ vc' = [op |-> "packet", h |-> h, rc |-> "CANCELLED"]
            /\ UNCHANGED ppc
       ELSE /\ \E rc \in Undefined :
                 vc' = [op |-> "packet", h |-> h, rc |-> rc]
            /\ ppc' = "ub"
    /\ UNCHANGED <<cancelled, command, asize, psize, answer, sawCancel, ops,
                   prc, returns>>
    /\ UNCHANGED <<extractVars, dumpVars, lc, fl>>

\* suunto_vyper2_device_reset_maxdepth (lines 228-235); with a vyper2
\* handle the call is handed to suunto_common2_device_reset_maxdepth
ResetMaxdepth(h) ==
    /\ ppc = "idle"
    /\ vc' = [op |-> "reset_maxdepth", h |-> h,
              rc |-> IF h # "own" THEN "INVALIDARGS" ELSE "delegated"]
    /\ UNCHANGED packetVars
    /\ UNCHANGED <<extractVars, dumpVars, lc, fl>>

\* the vyper2 calls made on a handle the caller chooses
NextHandle ==
    \/ \E h \in BadHandles : \E flag \in BOOLEAN : PacketForeign(h, flag)
    \/ \E h \in Handles : ResetMaxdepth(h)

NextPacket ==
    \/ Cancel
    \/ \E in \in PacketInputs : PacketEnter(in)
    \/ PacketSleep
    \/ PacketRtsHigh
    \/ \E n \in TransferCounts(Len(command)) : PacketWrite(n)
    \/ PacketRtsLow
    \/ /\ ppc = "read"
       /\ \E n \in TransferCounts(asize) :
             \E a \in (IF n = asize THEN Answers(CurrentInput) ELSE {<<>>}) :
                 PacketRead(n, a)
    \/ PacketValidate

SpecPacket == InitPacket /\ [][NextPacket]_vars

(***************************************************************************)
(* Vocabulary of the packet claims.                                        *)
(***************************************************************************)
\* the exchange has returned after a complete write and a complete read
Validated ==
    /\ ppc = "done"
    /\ Len(ops) = 5
    /\ ops[3].op = "write" /\ ops[3].n = Len(command)
    /\ ops[5].op = "read" /\ ops[5].n = asize

HeaderOK == answer[1] = command[1]

LengthOK == 256 * answer[2] + answer[3] + 4 = asize

ParamsOK ==
    \A k \in 4..(asize - psize - 1) : answer[k] = command[k]

ChecksumOK == answer[asize] = checksum_xor_uint8(SubSeq(answer, 1, asize - 1), 0)

ChecksFailed ==
    Cardinality({c \in {"header", "length", "checksum"} :
                    \/ c = "header" /\ ~HeaderOK
                    \/ c = "length" /\ ~LengthOK
                    \/ c = "checksum" /\ ~ChecksumOK})

(***************************************************************************)
(* C7: after a complete write and a complete read, an answer that fails    *)
(* exactly one of the header, length and checksum tests (the others and    *)
(* the parameter echo being right) gives the protocol error, never the I/O *)
(* or timeout error; an answer that passes all tests gives success.        *)
(***************************************************************************)
C7_ValidationStatus ==
    Validated =>
        /\ (ChecksFailed = 1 /\ ParamsOK) => prc = "PROTOCOL"
        /\ (ChecksFailed = 0 /\ ParamsOK) => prc = "SUCCESS"
        /\ prc \notin {"IO", "TIMEOUT"}

\* only the echoed header byte is wrong
C7_Witness ==
    /\ Validated
    /\ ~HeaderOK /\ LengthOK /\ ParamsOK /\ ChecksumOK
    /\ asize - psize - 4 > 0
    /\ prc = "PROTOCOL"

(***************************************************************************)
(* C8: an exchange entered with the cancellation flag set returns the      *)
(* cancelled status and issues no transport call at all (no sleep, no RTS  *)
(* change, no write, no read).                                             *)
(***************************************************************************)
C8_CancelledBeforeTransport ==
    /\ sawCancel => (ppc = "done" /\ prc = "CANCELLED" /\ ops = <<>>)
    /\ \A k \in 1..Len(returns) :
          returns[k].saw => (returns[k].rc = "CANCELLED" /\ returns[k].nops = 0)

C8_Witness ==
    /\ ppc = "done"
    /\ sawCancel
    /\ Len(returns) = 1
    /\ prc = "CANCELLED"
    /\ ops = <<>>

(***************************************************************************)
(* C9: the flag is polled only at the start of an exchange.  An exchange   *)
(* that passed the check issues its write, and its read after a complete   *)
(* write, and returns the status the transfer counts and the answer give,  *)
(* whether or not the flag was set meanwhile; the exchange that follows a  *)
(* return with the flag set returns cancelled without any transport call.  *)
(***************************************************************************)
\* the status the transfers and the answer of the exchange determine
OutcomeOfTransfers ==
    IF ops[3].n # Len(command) THEN EXITCODE(ops[3].n)
    ELSE IF ops[5].n # asize THEN EXITCODE(ops[5].n)
    ELSE Validate(command, answer, asize, psize)

C9_PolledOnlyAtStart ==
    /\ (ppc = "done" /\ ~sawCancel) =>
          /\ Len(ops) >= 3
          /\ ops[1].op = "sleep" /\ ops[2].op = "rts" /\ ops[3].op = "write"
          /\ ops[3].n = Len(command) =>
                (Len(ops) = 5 /\ ops[4].op = "rts" /\ ops[5].op = "read")
          /\ prc = OutcomeOfTransfers
    /\ \A k \in 2..Len(returns) :
          returns[k - 1].flag =>
              (returns[k].rc = "CANCELLED" /\ returns[k].nops = 0)

\* the flag was set during an exchange that then succeeded, and the next
\* exchange was cancelled
C9_Witness ==
    /\ Len(returns) = 2
    /\ ~returns[1].saw /\ returns[1].flag
    /\ returns[1].rc = "SUCCESS" /\ returns[1].nops = 5
    /\ returns[2].rc = "CANCELLED" /\ returns[2].nops = 0

(***************************************************************************)
(* reefnet_sensuspro_device_dump: handshake, command byte, chunked read of *)
(* the memory image, CRC check.                                            *)
(***************************************************************************)
\* stands for REEFNET_SENSUSPRO_MEMORY_SIZE
MemorySize == 16

\* stands for the 256 bytes a single read asks for at most (line 303)
ChunkLen == 8

\* number of dumps a behaviour starts
MaxDumps == 2

\* sizeof (answer) in the dump
AnswerSize == MemorySize + 2

\* array_uint16_le: little-endian decode of 2 bytes
array_uint16_le(b) == b[1] + 256 * b[2]

\* the 2 bytes a device stores for the 16-bit value v
LE16(v) == << v % 256, v \div 256 >>

\* k shift steps of the CRC register (polynomial 0x1021)
CrcShift(crc, k) ==
    LET shifted[c \in 0..65535, j \in 0..8] ==
            IF j = 0 THEN c
            ELSE shifted[IF c >= 32768 THEN Xor((2 * c) % 65536, 4129)
                                       ELSE 2 * c,
                         j - 1]
    IN  shifted[crc, k]

\* the CRC register after the bytes, starting from crc
CrcFrom(crc, bytes) ==
    LET after[i \in 0..Len(bytes)] ==
            IF i = 0 THEN crc
            ELSE CrcShift(Xor(after[i - 1], 256 * bytes[i]), 8)
    IN  after[Len(bytes)]

\* checksum_crc_ccitt_uint16 (bytes, Len(bytes)): CRC-CCITT, register
\* starting at 0xFFFF
checksum_crc_ccitt_uint16(bytes) == CrcFrom(65535, bytes)

\* handshake payloads: model, firmware, 2 bytes, serial (LE), devtime (LE)
Payloads ==
    { <<2, 1, 0, 0, 52, 18>> \o LE32(100),
      <<3, 2, 0, 0, 1, 0>> \o LE32(256) }

\* a payload or memory image followed by its CRC, as sent without error
Framed(bytes) == bytes \o LE16(checksum_crc_ccitt_uint16(bytes))

\* what a full read can deliver for the bytes b: the frame as sent, a frame
\* with a damaged CRC, a frame with a damaged first byte
Deliveries(b) ==
    { Framed(b),
      b \o LE16(Xor(checksum_crc_ccitt_uint16(b), 1)),
      <<Xor(b[1], 1)>> \o Tail(Framed(b)) }

Frames == UNION { Deliveries(p) : p \in Payloads }

\* memory images: all zero, no marker at all, one dive record (12 bytes,
\* timestamp 100) followed by filler
Memories ==
    { [k \in 1..MemorySize |-> 0],
      [k \in 1..MemorySize |-> (7 * k) % 256],
      PieceBytes(Rec(<<1, 1>>, 100, <<>>)) \o [k \in 1..(MemorySize - 12) |-> 1] }

Wires == UNION { Deliveries(m) : m \in Memories }

\* dc_datetime_now ()
HostTimes == {1000, 2000}

\* the caller's buffer: NULL, empty, or holding earlier bytes
Buffers ==
    { [null |-> TRUE, bytes |-> <<>>],
      [null |-> FALSE, bytes |-> <<>>],
      [null |-> FALSE, bytes |-> <<9, 9>>] }

\* State after reefnet_sensuspro_device_open, or a handle that is not a
\* sensuspro device; the buffer is the caller's.
InitDump ==
    /\ layout = <<>>
    /\ data = <<>>
    /\ devKind \in {"null", "sensuspro", "other"}
    /\ timestamp = 0
    /\ lastSet = "open"
    /\ setrc = "none"
    /\ callback = FALSE
    /\ pc = "off"
    /\ previous = 0
    /\ current = 0
    /\ accepted = <<>>
    /\ calls = <<>>
    /\ result = "none"
    /\ PacketOff
    /\ spc = "idle"
    /\ brk = 0
    /\ handshake = ZeroHandshake
    /\ devtime = 0
    /\ systime = -1
    /\ buffer \in Buffers
    /\ events = <<>>
    /\ progress = 0
    /\ nbytes = 0
    /\ image = <<>>
    /\ wire = <<>>
    /\ dops = <<>>
    /\ drc = "none"
    /\ dumps = 0
    /\ sc = NoCall
    /\ frame = <<>>
    /\ OpenOff
    /\ vc = NoVCall
    /\ fl = FlagsOff

\* the locals and the event log of a call that has just been entered
Entered ==
    /\ events' = <<>>
    /\ progress' = 0
    /\ nbytes' = 0
    /\ image' = <<>>
    /\ wire' = <<>>
    /\ frame' = <<>>

\* a foreach has been entered and has not returned
ForeachRunning == sc.op = "foreach" /\ sc.rc = "none"

\* the dump (or the write_interval) returns rc
DumpReturn(rc) ==
    /\ drc' = rc
    /\ spc' = "done"

\* lines 275-292: handle check, buffer clear and reserve, first progress event
DumpEnter ==
    /\ \/ /\ spc \in {"idle", "done"}
          /\ ~ForeachRunning
          /\ dumps < MaxDumps
          /\ dumps' = dumps + 1
          /\ sc' = [op |-> "dump", rc |-> "none", data |-> <<>>]
       \/ /\ spc = "foreach"
          /\ UNCHANGED <<dumps, sc>>
    /\ dops' = <<>>
    /\ IF ~device_is_reefnet_sensuspro
       THEN /\ DumpReturn("INVALIDARGS")
            /\ Entered
            /\ UNCHANGED buffer
       ELSE IF buffer.null
       THEN /\ DumpReturn("NOMEMORY")
            /\ Entered
            /\ UNCHANGED buffer
       ELSE /\ buffer' = [null |-> FALSE, bytes |-> <<>>]
            /\ \E reserved \in BOOLEAN :
                 IF ~reserved
                 THEN /\ DumpReturn("NOMEMORY")
                      /\ Entered
                 ELSE /\ progress' = 0
                      /\ events' = <<[type |-> "progress", current |-> 0,
                                      maximum |-> MemorySize + 2]>>
                      /\ nbytes' = 0
                      /\ image' = <<>>
                      /\ wire' \in Wires
                      /\ frame' = <<>>
                      /\ drc' = "none"
                      /\ spc' = "handshake"
    /\ UNCHANGED <<brk, handshake, devtime, systime>>
    /\ UNCHANGED <<extractVars, packetVars, lc, vc, fl>>

\* handshake events with the device-info event first and the serial number
\* taken from offset 2
HandshakeEvents_Wrong(f, now) ==
    << [type |-> "devinfo", model |-> f[1], firmware |-> f[2],
        serial |-> array_uint16_le(SubSeq(f, 3, 4))],
       [type |-> "clock", systime |-> now,
        devtime |-> array_uint32_le(SubSeq(f, 7, 10))] >>

\* lines 236-247: the clock event, then the device info event
HandshakeEvents(f, now) ==
    << [type |-> "clock", systime |-> now,
        devtime |-> array_uint32_le(SubSeq(f, 7, 10))],
       [type |-> "devinfo", model |-> f[1], firmware |-> f[2],
        serial |-> array_uint16_le(SubSeq(f, 5, 6))] >>

\* a handshake that stores the payload before it has verified the CRC
Handshake_StoresUnverified(n, f, now) ==
    /\ spc = "handshake"
    /\ frame' = f
    /\ IF n # HandshakeSize + 2
       THEN /\ brk' = 1
            /\ dops' = dops \o
                 <<[op |-> "break", arg |-> 1, n |-> 0],
                   [op |-> "read", arg |-> HandshakeSize + 2, n |-> n]>>
            /\ DumpReturn(EXITCODE(n))
            /\ UNCHANGED <<handshake, devtime, systime, events>>
       ELSE /\ brk' = 0
            /\ IF array_uint16_le(SubSeq(f, HandshakeSize + 1, HandshakeSize + 2))
                    # checksum_crc_ccitt_uint16(SubSeq(f, 1, HandshakeSize))
               THEN /\ dops' = dops \o
                         <<[op |-> "break", arg |-> 1, n |-> 0],
                           [op |-> "read", arg |-> HandshakeSize + 2, n |-> n],
                           [op |-> "break", arg |-> 0, n |-> 0]>>
                    /\ DumpReturn("PROTOCOL")
                    /\ handshake' = SubSeq(f, 1, HandshakeSize)
                    /\ UNCHANGED <<devtime, systime, events>>
               ELSE /\ systime' = now
                    /\ devtime' = array_uint32_le(SubSeq(f, 7, 10))
                    /\ handshake' = SubSeq(f, 1, HandshakeSize)
                    /\ events' = events \o HandshakeEvents(f, now)
                    /\ dops' = dops \o
                         <<[op |-> "break", arg |-> 1, n |-> 0],
                           [op |-> "read", arg |-> HandshakeSize + 2, n |-> n],
                           [op |-> "break", arg |-> 0, n |-> 0],
                           [op |-> "sleep", arg |-> 10, n |-> 0]>>
                    /\ spc' = "send"
                    /\ UNCHANGED drc
    /\ UNCHANGED <<buffer, progress, nbytes, image, wire, dumps, sc>>
    /\ UNCHANGED <<extractVars, packetVars, lc, vc, fl>>

\* reefnet_sensuspro_handshake, called from reefnet_sensuspro_send: the read
\* returns n and, when complete, delivers the frame f; now is the host time
Handshake(n, f, now) ==
    /\ spc = "handshake"
    /\ frame' = f
    /\ IF n # HandshakeSize + 2
       THEN /\ brk' = 1
            /\ dops' = dops \o
                 <<[op |-> "break", arg |-> 1, n |-> 0],
                   [op |-> "read", arg |-> HandshakeSize + 2, n |-> n]>>
            /\ DumpReturn(EXITCODE(n))
            /\ UNCHANGED <<handshake, devtime, systime, events>>
       ELSE /\ brk' = 0
            /\ IF array_uint16_le(SubSeq(f, HandshakeSize + 1, HandshakeSize + 2))
                    # checksum_crc_ccitt_uint16(SubSeq(f, 1, HandshakeSize))
               THEN /\ dops' = dops \o
                         <<[op |-> "break", arg |-> 1, n |-> 0],
                           [op |-> "read", arg |-> HandshakeSize + 2, n |-> n],
                           [op |-> "break", arg |-> 0, n |-> 0]>>
                    /\ DumpReturn("PROTOCOL")
                    /\ UNCHANGED <<handshake, devtime, systime, events>>
               ELSE /\ systime' = now
                    /\ devtime' = array_uint32_le(SubSeq(f, 7, 10))
                    /\ handshake' = SubSeq(f, 1, HandshakeSize)
                    /\ events' = events \o HandshakeEvents(f, now)
                    /\ dops' = dops \o
                         <<[op |-> "break", arg |-> 1, n |-> 0],
                           [op |-> "read", arg |-> HandshakeSize + 2, n |-> n],
                           [op |-> "break", arg |-> 0, n |-> 0],
                           [op |-> "sleep", arg |-> 10, n |-> 0]>>
                    /\ spc' = "send"
                    /\ UNCHANGED drc
    /\ UNCHANGED <<buffer, progress, nbytes, image, wire, dumps, sc>>
    /\ UNCHANGED <<extractVars, packetVars, lc, vc, fl>>

\* reefnet_sensuspro_send after the handshake: the write of the command byte
\* 0xB4 returns n
Send(n) ==
    /\ spc = "send"
    /\ dops' = Append(dops, [op |-> "write", arg |-> 1, n |-> n])
    /\ IF n # 1
       THEN DumpReturn(EXITCODE(n))
       ELSE /\ spc' = IF sc.op = "write_interval" THEN "interval" ELSE "read"
            /\ UNCHANGED drc
    /\ UNCHANGED <<brk, handshake, devtime, systime, buffer, events, progress,
                   nbytes, image, wire, dumps, sc, frame>>
    /\ UNCHANGED <<extractVars, packetVars, lc, vc, fl>>

\* the length the next read of the dump asks for (lines 302-304)
ChunkSize == IF AnswerSize - nbytes > ChunkLen THEN ChunkLen
                                               ELSE AnswerSize - nbytes

\* a progress that restarts with every chunk
ProgressAfter_Restart(len) == len

\* line 313: progress.current += len
ProgressAfter(len) == progress + len

\* one iteration of the loop of lines 301-317: the read returns n
DumpRead(n) ==
    /\ spc = "read"
    /\ dops' = Append(dops, [op |-> "read", arg |-> ChunkSize, n |-> n])
    /\ IF n # ChunkSize
       THEN /\ DumpReturn(EXITCODE(n))
            /\ UNCHANGED <<events, progress, nbytes, image>>
       ELSE /\ image' = image \o SubSeq(wire, nbytes + 1, nbytes + ChunkSize)
            /\ progress' = ProgressAfter(ChunkSize)
            /\ events' = Append(events,
                                [type |-> "progress",
                                 current |-> ProgressAfter(ChunkSize),
                                 maximum |-> MemorySize + 2])
            /\ nbytes' = nbytes + ChunkSize
            /\ spc' = IF nbytes + ChunkSize < AnswerSize THEN "read" ELSE "crc"
            /\ UNCHANGED drc
    /\ UNCHANGED <<brk, handshake, devtime, systime, buffer, wire, dumps, sc,
                   frame>>
    /\ UNCHANGED <<extractVars, packetVars, lc, vc, fl>>

\* a dump that appends the image before it compares the checksums
DumpVerify_AppendFirst ==
    /\ spc = "crc"
    /\ buffer' = [buffer EXCEPT !.bytes = @ \o SubSeq(image, 1, MemorySize)]
    /\ IF array_uint16_le(SubSeq(image, MemorySize + 1, MemorySize + 2))
            # checksum_crc_ccitt_uint16(SubSeq(image, 1, MemorySize))
       THEN DumpReturn("PROTOCOL")
       ELSE DumpReturn("SUCCESS")
    /\ UNCHANGED <<brk, handshake, devtime, systime, events, progress, nbytes,
                   image, wire, dops, dumps, sc, frame>>
    /\ UNCHANGED <<extractVars, packetVars, lc, vc, fl>>

\* lines 319-328: CRC check of the image, append to the caller's buffer
DumpVerify ==
    /\ spc = "crc"
    /\ IF array_uint16_le(SubSeq(image, MemorySize + 1, MemorySize + 2))
            # checksum_crc_ccitt_uint16(SubSeq(image, 1, MemorySize))
       THEN /\ DumpReturn("PROTOCOL")
            /\ UNCHANGED buffer
       ELSE /\ buffer' = [buffer EXCEPT
                             !.bytes = @ \o SubSeq(image, 1, MemorySize)]
            /\ DumpReturn("SUCCESS")
    /\ UNCHANGED <<brk, handshake, devtime, systime, events, progress, nbytes,
                   image, wire, dops, dumps, sc, frame>>
    /\ UNCHANGED <<extractVars, packetVars, lc, vc, fl>>

\* reefnet_sensuspro_device_get_handshake with a data[] of sz bytes
GetHandshake(sz) ==
    /\ spc \in {"idle", "done"}
    /\ ~ForeachRunning
    /\ sc' = IF ~device_is_reefnet_sensuspro \/ sz < HandshakeSize
             THEN [op |-> "get_handshake", rc |-> "INVALIDARGS", data |-> <<>>]
             ELSE [op |-> "get_handshake", rc |-> "SUCCESS",
                   data |-> handshake]
    /\ UNCHANGED <<spc, brk, handshake, devtime, systime, buffer, events,
                   progress, nbytes, image, wire, dops, drc, dumps, frame>>
    /\ UNCHANGED <<extractVars, packetVars, lc, vc, fl>>

\* the interval arguments: the two limits and their outer neighbours
Intervals == {0, 1, 127, 128}

\* reefnet_sensuspro_device_write_interval up to the call of send (lines
\* 358-369)
WriteIntervalEnter(interval) ==
    /\ spc \in {"idle", "done"}
    /\ ~ForeachRunning
    /\ dumps < MaxDumps
    /\ dumps' = dumps + 1
    /\ sc' = [op |-> "write_interval", rc |-> "none", data |-> <<>>]
    /\ dops' = <<>>
    /\ IF ~device_is_reefnet_sensuspro \/ interval < 1 \/ interval > 127
       THEN DumpReturn("INVALIDARGS")
       ELSE /\ drc' = "none"
            /\ spc' = "handshake"
    /\ Entered
    /\ UNCHANGED <<brk, handshake, devtime, systime, buffer>>
    /\ UNCHANGED <<extractVars, packetVars, lc, vc, fl>>

\* write_interval after send (lines 373-381): the write of the interval
\* byte returns n
WriteIntervalWrite(n) ==
    /\ spc = "interval"
    /\ dops' = dops \o <<[op |-> "sleep", arg |-> 10, n |-> 0],
                         [op |-> "write", arg |-> 1, n |-> n]>>
    /\ DumpReturn(IF n # 1 THEN EXITCODE(n) ELSE "SUCCESS")
    /\ UNCHANGED <<brk, handshake, devtime, systime, buffer, events, progress,
                   nbytes, image, wire, dumps, sc, frame>>
    /\ UNCHANGED <<extractVars, packetVars, lc, vc, fl>>

\* the buffer of a foreach after dc_buffer_free
FreedBuffer == [null |-> TRUE, bytes |-> <<>>]

\* reefnet_sensuspro_device_foreach, lines 333-342: handle check and
\* dc_buffer_new (allocated: whether it succeeds); cb: callback is not NULL
ForeachEnter(allocated, cb) ==
    /\ spc \in {"idle", "done"}
    /\ ~ForeachRunning
    /\ dumps < MaxDumps
    /\ IF ~device_is_reefnet_sensuspro
       THEN /\ sc' = [op |-> "foreach", rc |-> "INVALIDARGS", data |-> <<>>]
            /\ spc' = "done"
            /\ UNCHANGED buffer
       ELSE IF ~allocated
       THEN /\ sc' = [op |-> "foreach", rc |-> "NOMEMORY", data |-> <<>>]
            /\ spc' = "done"
            /\ UNCHANGED buffer
       ELSE /\ sc' = [op |-> "foreach", rc |-> "none", data |-> <<>>]
            /\ buffer' = [null |-> FALSE, bytes |-> <<>>]
            /\ spc' = "foreach"
    /\ callback' = cb
    /\ Entered
    /\ dops' = <<>>
    /\ drc' = "none"
    /\ data' = <<>>
    /\ previous' = 0
    /\ current' = 0
    /\ accepted' = <<>>
    /\ calls' = <<>>
    /\ result' = "none"
    /\ UNCHANGED <<brk, handshake, devtime, systime, dumps>>
    /\ UNCHANGED <<layout, devKind, timestamp, lastSet, setrc, pc>>
    /\ UNCHANGED <<packetVars, lc, vc, fl>>

\* a foreach that runs the extraction whatever the dump returned
ForeachDumped_Extracts ==
    /\ ForeachRunning
    /\ spc = "done"
    /\ pc = "off"
    /\ data' = buffer.bytes
    /\ pc' = "ready"
    /\ accepted' = <<>>
    /\ calls' = <<>>
    /\ result' = "none"
    /\ UNCHANGED <<sc, buffer>>
    /\ UNCHANGED <<spc, brk, handshake, devtime, systime, events, progress,
                   nbytes, image, wire, dops, drc, dumps, frame>>
    /\ UNCHANGED <<layout, devKind, timestamp, lastSet, setrc, callback,
                   previous, current>>
    /\ UNCHANGED <<packetVars, lc, vc, fl>>

\* foreach, lines 342-349: the dump has returned; a failure is returned as
\* it is, a success hands the buffer to reefnet_sensuspro_extract_dives
ForeachDumped ==
    /\ ForeachRunning
    /\ spc = "done"
    /\ pc = "off"
    /\ IF drc # "SUCCESS"
       THEN /\ sc' = [sc EXCEPT !.rc = drc]
            /\ buffer' = FreedBuffer
            /\ UNCHANGED <<data, pc, accepted, calls, result>>
       ELSE /\ data' = buffer.bytes
            /\ pc' = "ready"
            /\ accepted' = <<>>
            /\ calls' = <<>>
            /\ result' = "none"
            /\ UNCHANGED <<sc, buffer>>
    /\ UNCHANGED <<spc, brk, handshake, devtime, systime, events, progress,
                   nbytes, image, wire, dops, drc, dumps, frame>>
    /\ UNCHANGED <<layout, devKind, timestamp, lastSet, setrc, callback,
                   previous, current>>
    /\ UNCHANGED <<packetVars, lc, vc, fl>>

\* foreach, lines 348-353: extract_dives has returned
ForeachReturn ==
    /\ ForeachRunning
    /\ pc = "done"
    /\ sc' = [sc EXCEPT !.rc = result]
    /\ buffer' = FreedBuffer
    /\ pc' = "off"
    /\ UNCHANGED <<spc, brk, handshake, devtime, systime, events, progress,
                   nbytes, image, wire, dops, drc, dumps, frame>>
    /\ UNCHANGED <<layout, data, devKind, timestamp, lastSet, setrc, callback,
                   previous, current, accepted, calls, result>>
    /\ UNCHANGED <<packetVars, lc, vc, fl>>

NextDump ==
    \/ DumpEnter
    \/ \E allocated \in BOOLEAN : \E cb \in BOOLEAN : ForeachEnter(allocated, cb)
    \/ ForeachDumped
    \/ ForeachReturn
    \/ ExtractStart
    \/ ExtractStep
    \/ ExtractReturn
    \/ \E sz \in {HandshakeSize - 1, HandshakeSize} : GetHandshake(sz)
    \/ \E interval \in Intervals : WriteIntervalEnter(interval)
    \/ \E n \in TransferCounts(1) : WriteIntervalWrite(n)
    \/ \E n \in TransferCounts(HandshakeSize + 2) :
         \E f \in (IF n = HandshakeSize + 2 THEN Frames ELSE {<<>>}) :
             \E now \in HostTimes : Handshake(n, f, now)
    \/ \E n \in TransferCounts(1) : Send(n)
    \/ \E n \in TransferCounts(ChunkLen) \cup TransferCounts(ChunkSize) :
         DumpRead(n)
    \/ DumpVerify

SpecDump == InitDump /\ [][NextDump]_vars

\* every operation that talks to a dive computer: a vyper2 handle running
\* packet exchanges, or a sensuspro handle running dumps
InitIO == InitPacket \/ InitDump

NextIO == NextPacket \/ NextDump

SpecIO == InitIO /\ [][NextIO]_vars

(***************************************************************************)
(* C10: a transport read or write of the handshake, the command send, the  *)
(* dump or the packet exchange that returns a count other than the         *)
(* requested one ends the operation, which then returns the I/O error if   *)
(* the count is -1 and the timeout error for every other count, never the  *)
(* protocol error or success.                                              *)
(***************************************************************************)
\* o is a read or write that returned another count than it asked for
ShortTransfer(o) == o.op \in {"read", "write"} /\ o.n # o.arg

\* the log holds a short transfer: it is the last call of an operation that
\* has returned rc, and rc is the status the count asks for
ShortTransferStatus(log, returned, rc) ==
    \A k \in 1..Len(log) :
        ShortTransfer(log[k]) =>
            /\ k = Len(log)
            /\ returned
            /\ log[k].n = -1 => rc = "IO"
            /\ log[k].n # -1 => rc = "TIMEOUT"

C10_ShortTransferStatus ==
    /\ ShortTransferStatus(ops, ppc = "done", prc)
    /\ ShortTransferStatus(dops, spc = "done", drc)

\* a chunk of the dump after the first fails hard
C10_Witness ==
    /\ spc = "done"
    /\ nbytes > 0
    /\ dops # <<>>
    /\ dops[Len(dops)].op = "read"
    /\ dops[Len(dops)].n = -1
    /\ drc = "IO"

(***************************************************************************)
(* reefnet_sensuspro_device_open, suunto_vyper2_device_open and the two    *)
(* close operations.  lc.log lists the serial calls with their results,    *)
(* lc.mem and lc.frees follow the device structure, lc.port and lc.closes  *)
(* the serial port, lc.out the caller's *out.                              *)
(***************************************************************************)
\* number of open calls a behaviour makes
MaxOpens == 2

Families == {"sensuspro", "vyper2"}

\* results of a serial call: done, or the failure value -1
SerialResults == {0, -1}

\* No device exists yet.
InitOpen ==
    /\ layout = <<>>
    /\ data = <<>>
    /\ devKind = "null"
    /\ timestamp = 0
    /\ lastSet = "open"
    /\ setrc = "none"
    /\ callback = FALSE
    /\ pc = "off"
    /\ previous = 0
    /\ current = 0
    /\ accepted = <<>>
    /\ calls = <<>>
    /\ result = "none"
    /\ PacketOff
    /\ DumpOff
    /\ lc = [pc |-> "idle", family |-> "none", out |-> "unwritten",
             mem |-> "none", frees |-> 0, port |-> "none", closes |-> 0,
             rc |-> "none", crc |-> "none", h |-> "none", log |-> <<>>,
             hist |-> <<>>, opens |-> 0]
    /\ vc = NoVCall
    /\ fl = FlagsOff

\* the serial call op returned rc
Logged(op, rc) == Append(lc.log, [op |-> op, rc |-> rc])

\* free (device) and return DC_STATUS_IO, the port never opened
FailUnopened(op, rc) ==
    [lc EXCEPT !.log = Logged(op, rc), !.mem = "freed", !.frees = @ + 1,
               !.rc = "IO", !.pc = "done"]

\* a failure path that frees the device but leaves the port open
FailOpened_NoClose(op, rc) ==
    [lc EXCEPT !.log = Logged(op, rc), !.mem = "freed", !.frees = @ + 1,
               !.rc = "IO", !.pc = "done"]

\* serial_close (device->port), free (device) and return DC_STATUS_IO
FailOpened(op, rc) ==
    [lc EXCEPT !.log = Append(Logged(op, rc), [op |-> "close", rc |-> 0]),
               !.port = "closed", !.closes = @ + 1,
               !.mem = "freed", !.frees = @ + 1,
               !.rc = "IO", !.pc = "done"]

\* entry of open for the family fam; outNull: the out argument is NULL
OpenEnter(fam, outNull) ==
    /\ lc.pc \in {"idle", "done", "closed"}
    /\ lc.opens < MaxOpens
    /\ lc' = [pc |-> IF outNull THEN "done" ELSE "alloc",
              family |-> fam,
              out |-> IF outNull THEN "null" ELSE "unwritten",
              mem |-> "none", frees |-> 0, port |-> "none", closes |-> 0,
              rc |-> IF outNull THEN "INVALIDARGS" ELSE "none",
              crc |-> "none",
              h |-> "none",
              log |-> <<>>,
              hist |-> IF lc.pc = "idle" THEN lc.hist
                       ELSE Append(lc.hist, [family |-> lc.family,
                                             rc |-> lc.rc, crc |-> lc.crc]),
              opens |-> lc.opens + 1]
    /\ UNCHANGED <<extractVars, packetVars, dumpVars, vc, fl>>

\* malloc of the device structure
OpenAlloc(ok) ==
    /\ lc.pc = "alloc"
    /\ lc' = IF ok THEN [lc EXCEPT !.mem = "allocated", !.pc = "serial"]
                   ELSE [lc EXCEPT !.rc = "NOMEMORY", !.pc = "done"]
    /\ UNCHANGED <<extractVars, packetVars, dumpVars, vc, fl>>

\* serial_open
OpenSerial(rc) ==
    /\ lc.pc = "serial"
    /\ lc' = IF rc = -1 THEN FailUnopened("open", rc)
             ELSE [lc EXCEPT !.log = Logged("open", rc), !.port = "open",
                             !.pc = "configure"]
    /\ UNCHANGED <<extractVars, packetVars, dumpVars, vc, fl>>

\* serial_configure
OpenConfigure(rc) ==
    /\ lc.pc = "configure"
    /\ lc' = IF rc = -1 THEN FailOpened("configure", rc)
             ELSE [lc EXCEPT !.log = Logged("configure", rc),
                             !.pc = "timeout"]
    /\ UNCHANGED <<extractVars, packetVars, dumpVars, vc, fl>>

\* serial_set_timeout; the vyper2 goes on to set DTR
OpenTimeout(rc) ==
    /\ lc.pc = "timeout"
    /\ lc' = IF rc = -1 THEN FailOpened("set_timeout", rc)
             ELSE [lc EXCEPT !.log = Logged("set_timeout", rc),
                             !.pc = IF lc.family = "vyper2" THEN "dtr"
                                                            ELSE "finish"]
    /\ UNCHANGED <<extractVars, packetVars, dumpVars, vc, fl>>

\* serial_set_dtr (vyper2 only)
OpenDtr(rc) ==
    /\ lc.pc = "dtr"
    /\ lc' = IF rc = -1 THEN FailOpened("set_dtr", rc)
             ELSE [lc EXCEPT !.log = Logged("set_dtr", rc), !.pc = "finish"]
    /\ UNCHANGED <<extractVars, packetVars, dumpVars, vc, fl>>

\* the calls whose result open ignores, then *out = device
OpenFinish ==
    /\ lc.pc = "finish"
    /\ lc' = [lc EXCEPT
                 !.log = IF lc.family = "vyper2"
                         THEN @ \o <<[op |-> "sleep", rc |-> 0],
                                     [op |-> "flush", rc |-> 0],
                                     [op |-> "set_halfduplex", rc |-> 0]>>
                         ELSE Append(@, [op |-> "flush", rc |-> 0]),
                 !.out = "device", !.rc = "SUCCESS", !.pc = "done"]
    /\ UNCHANGED <<extractVars, packetVars, dumpVars, vc, fl>>

\* reefnet_sensuspro_device_close / suunto_vyper2_device_close on the handle
\* h; serial_close returns rc
Close(h, rc) ==
    /\ lc.pc = "done"
    /\ lc.rc = "SUCCESS"
    /\ lc' = IF h # "own"
             THEN [lc EXCEPT !.crc = "INVALIDARGS", !.h = h]
             ELSE [lc EXCEPT !.log = Logged("close", rc), !.h = h,
                             !.port = "closed", !.closes = @ + 1,
                             !.mem = "freed", !.frees = @ + 1,
                             !.crc = IF rc = -1 THEN "IO" ELSE "SUCCESS",
                             !.pc = "closed"]
    /\ UNCHANGED <<extractVars, packetVars, dumpVars, vc, fl>>

NextOpen ==
    \/ \E fam \in Families : \E outNull \in BOOLEAN : OpenEnter(fam, outNull)
    \/ \E ok \in BOOLEAN : OpenAlloc(ok)
    \/ \E rc \in SerialResults : OpenSerial(rc)
    \/ \E rc \in SerialResults : OpenConfigure(rc)
    \/ \E rc \in SerialResults : OpenTimeout(rc)
    \/ \E rc \in SerialResults : OpenDtr(rc)
    \/ OpenFinish
    \/ \E h \in Handles : \E rc \in SerialResults : Close(h, rc)

SpecOpen == InitOpen /\ [][NextOpen]_vars

(***************************************************************************)
(* The event-flags word of parser.h (parser_sample_flags_t and the         *)
(* SAMPLE_FLAGS_* macros, lines 113-137): an unsigned int whose bit 0 is   *)
(* "begin", bit 1 "end", bits 2-4 the severity and bits 5-7 the annotation *)
(* type.  The header gives the masks and shifts; packing is the bitwise or *)
(* of the shifted components and unpacking is mask and shift.              *)
(***************************************************************************)
\* a << n and a >> n on non-negative numbers
Shl(a, n) == a * (2 ^ n)

Shr(a, n) == a \div (2 ^ n)

\* a & b and a | b on non-negative numbers
RECURSIVE BitAnd(_, _)
BitAnd(a, b) ==
    IF a = 0 \/ b = 0
    THEN 0
    ELSE (a % 2) * (b % 2) + 2 * BitAnd(a \div 2, b \div 2)

RECURSIVE BitOr(_, _)
BitOr(a, b) ==
    IF a = 0 THEN b
    ELSE IF b = 0 THEN a
    ELSE (IF a % 2 = 1 \/ b % 2 = 1 THEN 1 ELSE 0)
           + 2 * BitOr(a \div 2, b \div 2)

\* a & ~m
BitClear(a, m) == a - BitAnd(a, m)

SAMPLE_FLAGS_NONE == 0

SAMPLE_FLAGS_BEGIN == Shl(1, 0)

SAMPLE_FLAGS_END == Shl(1, 1)

SAMPLE_FLAGS_SEVERITY_SHIFT == 2

\* a severity mask of two bits
SAMPLE_FLAGS_SEVERITY_MASK_TwoBits == Shl(3, 2)

SAMPLE_FLAGS_SEVERITY_MASK == Shl(7, 2)

SAMPLE_FLAGS_SEVERITY_MISSING == Shl(0, SAMPLE_FLAGS_SEVERITY_SHIFT)

SAMPLE_FLAGS_SEVERITY_ALARM == Shl(4, SAMPLE_FLAGS_SEVERITY_SHIFT)

SAMPLE_FLAGS_TYPE_SHIFT == 5

SAMPLE_FLAGS_TYPE_MASK == Shl(7, SAMPLE_FLAGS_TYPE_SHIFT)

SAMPLE_FLAGS_TYPE_NONE == Shl(0, SAMPLE_FLAGS_TYPE_SHIFT)

SAMPLE_FLAGS_TYPE_INJURY == Shl(6, SAMPLE_FLAGS_TYPE_SHIFT)

\* the legal severities (missing, state, info, warn, alarm) and annotation
\* types (none, interest, navpoint, danger, animal, issue, injury)
Severities ==
    Shr(SAMPLE_FLAGS_SEVERITY_MISSING, SAMPLE_FLAGS_SEVERITY_SHIFT)
      .. Shr(SAMPLE_FLAGS_SEVERITY_ALARM, SAMPLE_FLAGS_SEVERITY_SHIFT)

AnnotationTypes ==
    Shr(SAMPLE_FLAGS_TYPE_NONE, SAMPLE_FLAGS_TYPE_SHIFT)
      .. Shr(SAMPLE_FLAGS_TYPE_INJURY, SAMPLE_FLAGS_TYPE_SHIFT)

FlagComponents ==
    [begin : BOOLEAN, end : BOOLEAN, severity : Severities,
     type : AnnotationTypes]

\* the word of one component alone
BeginBits(b) == IF b THEN SAMPLE_FLAGS_BEGIN ELSE SAMPLE_FLAGS_NONE

EndBits(e) == IF e THEN SAMPLE_FLAGS_END ELSE SAMPLE_FLAGS_NONE

SeverityBits(v) == Shl(v, SAMPLE_FLAGS_SEVERITY_SHIFT)

TypeBits(t) == Shl(t, SAMPLE_FLAGS_TYPE_SHIFT)

\* flags = begin | end | (severity << 2) | (type << 5)
PackFlags(c) ==
    BitOr(BitOr(BeginBits(c.begin), EndBits(c.end)),
          BitOr(SeverityBits(c.severity), TypeBits(c.type)))

\* (flags & MASK) >> SHIFT for each component
UnpackFlags(w) ==
    [begin    |-> BitAnd(w, SAMPLE_FLAGS_BEGIN) # 0,
     end      |-> BitAnd(w, SAMPLE_FLAGS_END) # 0,
     severity |-> Shr(BitAnd(w, SAMPLE_FLAGS_SEVERITY_MASK),
                      SAMPLE_FLAGS_SEVERITY_SHIFT),
     type     |-> Shr(BitAnd(w, SAMPLE_FLAGS_TYPE_MASK),
                      SAMPLE_FLAGS_TYPE_SHIFT)]

\* flags = (flags & ~MASK) | bits, for the component named field
ReplaceField(w, field, c) ==
    IF field = "begin"
      THEN BitOr(BitClear(w, SAMPLE_FLAGS_BEGIN), BeginBits(c.begin))
    ELSE IF field = "end"
      THEN BitOr(BitClear(w, SAMPLE_FLAGS_END), EndBits(c.end))
    ELSE IF field = "severity"
      THEN BitOr(BitClear(w, SAMPLE_FLAGS_SEVERITY_MASK),
                 SeverityBits(c.severity))
    ELSE BitOr(BitClear(w, SAMPLE_FLAGS_TYPE_MASK), TypeBits(c.type))

FlagFields == {"begin", "end", "severity", "type"}

\* the four components are any legal values; nothing is packed yet
InitFlags ==
    /\ fl \in [pc : {"args"}, in : FlagComponents, flags : {0},
               changed : {"none"}, out : {NoFlags}]
    /\ layout = <<>>
    /\ data = <<>>
    /\ devKind = "null"
    /\ timestamp = 0
    /\ lastSet = "open"
    /\ setrc = "none"
    /\ callback = FALSE
    /\ pc = "off"
    /\ previous = 0
    /\ current = 0
    /\ accepted = <<>>
    /\ calls = <<>>
    /\ result = "none"
    /\ PacketOff
    /\ DumpOff
    /\ OpenOff
    /\ vc = NoVCall

\* the components are packed into one word
FlagsPack ==
    /\ fl.pc = "args"
    /\ fl' = [fl EXCEPT !.pc = "packed", !.flags = PackFlags(fl.in)]
    /\ UNCHANGED <<extractVars, packetVars, dumpVars, lc, vc>>

\* one component of the packed word is replaced by the value c has for it
FlagsChange(field, c) ==
    /\ fl.pc = "packed"
    /\ c[field] # fl.in[field]
    /\ fl' = [fl EXCEPT !.pc = "changed",
                        !.flags = ReplaceField(fl.flags, field, c),
                        !.changed = field,
                        !.in = [@ EXCEPT ![field] = c[field]]]
    /\ UNCHANGED <<extractVars, packetVars, dumpVars, lc, vc>>

\* the word is unpacked
FlagsUnpack ==
    /\ fl.pc \in {"packed", "changed"}
    /\ fl' = [fl EXCEPT !.pc = "unpacked", !.out = UnpackFlags(fl.flags)]
    /\ UNCHANGED <<extractVars, packetVars, dumpVars, lc, vc>>

NextFlags ==
    \/ FlagsPack
    \/ \E field \in FlagFields, c \in FlagComponents : FlagsChange(field, c)
    \/ FlagsUnpack

SpecFlags == InitFlags /\ [][NextFlags]_vars

\* every operation of the two backends, each on its own kind of start state
InitAll == InitExtract \/ InitPacket \/ InitDump \/ InitOpen

NextAll == NextExtract \/ NextPacket \/ NextHandle \/ NextDump \/ NextOpen

SpecAll == InitAll /\ [][NextAll]_vars

(***************************************************************************)
(* C11: in both open operations a failing serial_open, serial_configure,   *)
(* serial_set_timeout or serial_set_dtr makes open return the I/O error    *)
(* with *out unwritten, the port closed once if it had been opened and not *)
(* at all otherwise, and the device freed exactly once; *out holds a       *)
(* handle only when open returned success.                                 *)
(***************************************************************************)
OpenSteps == {"open", "configure", "set_timeout", "set_dtr"}

\* the k-th serial call of the open is a step that failed
FailedAt(k) == lc.log[k].op \in OpenSteps /\ lc.log[k].rc = -1

\* the port was opened before the k-th serial call
OpenedBefore(k) ==
    \E j \in 1..(k - 1) : lc.log[j].op = "open" /\ lc.log[j].rc = 0

C11_OpenFailureReleases ==
    /\ \A k \in 1..Len(lc.log) :
          FailedAt(k) =>
              /\ lc.pc = "done"
              /\ lc.rc = "IO"
              /\ lc.out = "unwritten"
              /\ lc.closes = (IF OpenedBefore(k) THEN 1 ELSE 0)
              /\ lc.port = (IF OpenedBefore(k) THEN "closed" ELSE "none")
              /\ lc.frees = 1
              /\ lc.mem = "freed"
    /\ lc.out = "device" => lc.rc = "SUCCESS"
    /\ (lc.pc \in {"done", "closed"} /\ lc.rc = "SUCCESS") => lc.out = "device"

\* the last step of the vyper2 open, serial_set_dtr, fails
C11_Witness ==
    /\ lc.family = "vyper2"
    /\ lc.pc = "done"
    /\ Len(lc.log) = 5
    /\ FailedAt(4) /\ lc.log[4].op = "set_dtr"
    /\ lc.log[5].op = "close"
    /\ lc.rc = "IO"
    /\ lc.out = "unwritten"

(***************************************************************************)
(* C12: handle checks.  Statement as claimed: every operation, extraction  *)
(* and the packet exchange included, called with a handle that is NULL or  *)
(* of another family returns the invalid-argument error before any         *)
(* transport call, state change, free or callback.                         *)
(***************************************************************************)
\* the sensuspro handle in use is NULL or of another family
BadSensus == devKind \in {"null", "other"}

\* set_fingerprint and set_timestamp on a bad handle
SettersReject ==
    /\ setrc \in {"none", "INVALIDARGS"}
    /\ timestamp = 0
    /\ lastSet = "open"

\* dump, write_interval, get_handshake and foreach on a bad handle
DeviceCallsReject ==
    /\ spc \in {"off", "idle", "done"}
    /\ drc \in {"none", "INVALIDARGS"}
    /\ (spc = "done" /\ sc.op \in {"dump", "write_interval"}) =>
           drc = "INVALIDARGS"
    /\ sc.op \in {"get_handshake", "foreach"} =>
           (sc.rc = "INVALIDARGS" /\ sc.data = <<>>)
    /\ dops = <<>>
    /\ events = <<>>
    /\ brk = 0
    /\ handshake = ZeroHandshake /\ devtime = 0 /\ systime = -1

\* extract_dives called directly on the handle in use rejects it
ExtractRejects ==
    /\ pc \in {"off", "idle", "done"}
    /\ pc = "done" => result = "INVALIDARGS"
    /\ calls = <<>>
    /\ accepted = <<>>

\* close on a bad handle
CloseRejects ==
    lc.h \in BadHandles =>
        /\ lc.crc = "INVALIDARGS"
        /\ lc.pc = "done"
        /\ lc.mem = "allocated" /\ lc.frees = 0
        /\ lc.port = "open" /\ lc.closes = 0

\* reset_maxdepth on a bad handle
ResetRejects ==
    (vc.op = "reset_maxdepth" /\ vc.h \in BadHandles) =>
        /\ vc.rc = "INVALIDARGS"
        /\ ppc = "idle"
        /\ ops = <<>>

\* the packet exchange on a bad handle
PacketRejects ==
    (vc.op = "packet" /\ vc.h \in BadHandles) => vc.rc = "INVALIDARGS"

C12_Original ==
    /\ BadSensus => (SettersReject /\ DeviceCallsReject /\ ExtractRejects)
    /\ CloseRejects
    /\ ResetRejects
    /\ PacketRejects

(***************************************************************************)
(* C12 as the code has it: close, get_handshake, set_timestamp,            *)
(* set_fingerprint, dump, foreach, write_interval and reset_maxdepth       *)
(* reject a NULL or foreign handle with the invalid-argument error and     *)
(* without any transport call, state change, free or callback;             *)
(* extract_dives rejects a foreign handle only.                            *)
(***************************************************************************)
C12_CheckedOperationsReject ==
    /\ [](/\ BadSensus => (SettersReject /\ DeviceCallsReject)
          /\ devKind = "other" => ExtractRejects
          /\ (devKind = "null" /\ spc # "off") => ExtractRejects
          /\ CloseRejects
          /\ ResetRejects)
    /\ [][BadSensus => buffer' = buffer]_vars

\* a dump on a foreign handle has returned, the caller's buffer still holds
\* its earlier bytes
C12_Witness ==
    /\ devKind = "other"
    /\ spc = "done"
    /\ sc.op = "dump"
    /\ drc = "INVALIDARGS"
    /\ buffer.bytes = <<9, 9>>
    /\ dops = <<>>

(***************************************************************************)
(* C13: after a successful handshake (complete frame whose trailing CRC is *)
(* the CRC of the payload) the device holds the payload as its handshake   *)
(* and the device time of payload offset 6 with the host time; exactly one *)
(* clock event and then exactly one device-info event (model byte 0,       *)
(* firmware byte 1, serial 16-bit LE at offset 4) have been emitted before *)
(* the command byte is written; get_handshake then returns that payload.   *)
(***************************************************************************)
\* the payload of the frame read by the handshake of the current operation
FramePayload == SubSeq(frame, 1, HandshakeSize)

\* the current operation has read a complete frame with the right CRC
HandshakeSucceeded ==
    /\ Len(frame) = HandshakeSize + 2
    /\ frame[HandshakeSize + 1] + 256 * frame[HandshakeSize + 2]
           = checksum_crc_ccitt_uint16(FramePayload)

\* the positions of the events of type t
EventsOfType(t) == {k \in 1..Len(events) : events[k].type = t}

\* a write is in the log of transport calls
Written == \E k \in 1..Len(dops) : dops[k].op = "write"

C13_HandshakeStored ==
    HandshakeSucceeded =>
        /\ handshake = FramePayload
        /\ devtime = frame[7] + 256 * frame[8] + 65536 * frame[9]
                       + 16777216 * frame[10]
        /\ systime \in HostTimes
        /\ \E c, d \in 1..Len(events) :
              /\ EventsOfType("clock") = {c}
              /\ EventsOfType("devinfo") = {d}
              /\ d = c + 1
              /\ events[c].systime = systime /\ events[c].devtime = devtime
              /\ events[d].model = frame[1]
              /\ events[d].firmware = frame[2]
              /\ events[d].serial = frame[5] + 256 * frame[6]
        /\ spc = "send" => ~Written
        /\ (sc.op = "get_handshake" /\ sc.rc = "SUCCESS") =>
               sc.data = FramePayload

\* get_handshake after a dump whose handshake succeeded
C13_Witness ==
    /\ HandshakeSucceeded
    /\ Written
    /\ sc.op = "get_handshake"
    /\ sc.rc = "SUCCESS"
    /\ sc.data = <<2, 1, 0, 0, 52, 18, 100, 0, 0, 0>>
    /\ devtime = 100

(***************************************************************************)
(* C14: in foreach -> dump -> send -> handshake the first failing step     *)
(* ends the operation: no transport read or write follows it, the          *)
(* extraction is not run, the callback is never invoked, and foreach       *)
(* returns exactly the status of the failing step.                         *)
(***************************************************************************)
\* the image of the dump is complete, its trailing CRC is wrong and the
\* check of line 321 has been made
ImageCrcWrong ==
    /\ spc # "crc"
    /\ Len(image) = AnswerSize
    /\ image[MemorySize + 1] + 256 * image[MemorySize + 2]
           # checksum_crc_ccitt_uint16(SubSeq(image, 1, MemorySize))

\* the handshake frame is complete and its trailing CRC is wrong
FrameCrcWrong == Len(frame) = HandshakeSize + 2 /\ ~HandshakeSucceeded

\* the status of the step of the current operation that failed, "none" if
\* no transfer and no CRC check has failed
FailedStep ==
    IF dops # <<>> /\ ShortTransfer(dops[Len(dops)])
    THEN (IF dops[Len(dops)].n = -1 THEN "IO" ELSE "TIMEOUT")
    ELSE IF FrameCrcWrong \/ ImageCrcWrong THEN "PROTOCOL"
    ELSE "none"

\* the transport reads and writes in the log
Transfers == {k \in 1..Len(dops) : dops[k].op \in {"read", "write"}}

C14_FirstFailureEnds ==
    (sc.op = "foreach" /\ FailedStep # "none") =>
        /\ \A k \in Transfers : ShortTransfer(dops[k]) => k = Len(dops)
        /\ FrameCrcWrong => Transfers = {2}
        /\ ImageCrcWrong => dops[Len(dops)].op = "read"
        /\ spc = "done"
        /\ drc = FailedStep
        /\ pc = "off"
        /\ calls = <<>>
        /\ sc.rc \in {"none", FailedStep}

\* a foreach with a callback has returned the I/O error of the command write
C14_Witness ==
    /\ sc.op = "foreach"
    /\ sc.rc = "IO"
    /\ callback
    /\ dops # <<>>
    /\ dops[Len(dops)].op = "write"
    /\ dops[Len(dops)].n = -1
    /\ calls = <<>>

(***************************************************************************)
(* C15: the progress events of one dump all carry the maximum memory size  *)
(* + 2; the first has current = 0; from one event to the next current does *)
(* not decrease and grows by at most one chunk (256 bytes in the code,     *)
(* ChunkLen here); current never exceeds the maximum; and current equals   *)
(* the maximum when the dump reaches its CRC check.                        *)
(***************************************************************************)
\* the progress events of the current operation, in order
ProgressEvents == SelectSeq(events, LAMBDA e : e.type = "progress")

\* the dump has received its whole image, so it reaches the CRC check
ReachedCrc == Len(image) = AnswerSize

C15_ProgressMonotone ==
    LET pe == ProgressEvents
    IN  /\ \A k \in 1..Len(pe) :
              /\ pe[k].maximum = MemorySize + 2
              /\ pe[k].current >= 0
              /\ pe[k].current <= pe[k].maximum
        /\ pe # <<>> => pe[1].current = 0
        /\ \A k \in 1..(Len(pe) - 1) :
              /\ pe[k + 1].current >= pe[k].current
              /\ pe[k + 1].current - pe[k].current <= ChunkLen
        /\ ReachedCrc =>
              (pe # <<>> /\ pe[Len(pe)].current = pe[Len(pe)].maximum)

\* the dump is at its CRC check after a full, a second full and a last
\* short chunk
C15_Witness ==
    /\ spc = "crc"
    /\ ReachedCrc
    /\ Len(ProgressEvents) >= 4
    /\ ProgressEvents[2].current = ChunkLen
    /\ ProgressEvents[Len(ProgressEvents)].current = MemorySize + 2
    /\ ProgressEvents[Len(ProgressEvents)].current
          - ProgressEvents[Len(ProgressEvents) - 1].current < ChunkLen

(***************************************************************************)
(* C16: reefnet_sensuspro_device_dump never hands back a partially filled  *)
(* buffer.  When it returns a failure after the handle check (no buffer    *)
(* space, handshake or command failure, short read of any chunk, CRC       *)
(* mismatch of the image) the caller's buffer holds no byte; when it       *)
(* returns success the buffer holds exactly the MemorySize bytes of the    *)
(* image, whose trailing CRC matched; and while the dump runs the buffer   *)
(* is empty.                                                               *)
(***************************************************************************)
\* the dump has just returned, to its caller or to foreach
DumpReturned ==
    /\ spc = "done"
    /\ drc # "none"
    /\ \/ sc.op = "dump"
       \/ ForeachRunning /\ pc = "off"

\* the dump is past its buffer preparation and has not returned
DumpRunning ==
    /\ spc \in {"handshake", "send", "read", "crc"}
    /\ sc.op \in {"dump", "foreach"}

C16_NoPartialBuffer ==
    /\ DumpRunning => buffer.bytes = <<>>
    /\ (DumpReturned /\ device_is_reefnet_sensuspro) =>
          IF drc = "SUCCESS"
          THEN /\ ~buffer.null
               /\ Len(image) = AnswerSize
               /\ buffer.bytes = SubSeq(image, 1, MemorySize)
               /\ buffer.bytes = SubSeq(wire, 1, MemorySize)
               /\ array_uint16_le(SubSeq(image, MemorySize + 1, AnswerSize))
                    = checksum_crc_ccitt_uint16(buffer.bytes)
          ELSE buffer.bytes = <<>>

\* a dump into a caller's buffer fails at its CRC check with the whole
\* image received
C16_Witness ==
    /\ DumpReturned
    /\ sc.op = "dump"
    /\ device_is_reefnet_sensuspro
    /\ ~buffer.null
    /\ drc = "PROTOCOL"
    /\ Len(image) = AnswerSize
    /\ buffer.bytes = <<>>

(***************************************************************************)
(* C17: packing (begin, end, severity, type) into the event-flags word,    *)
(* begin at bit 0, end at bit 1, severity (0..4) at bits 2-4, annotation   *)
(* type (0..6) at bits 5-7, and unpacking with the masks and shifts gives  *)
(* back the same four components for every combination of legal values;   *)
(* the four bit fields do not overlap, so replacing one component in the   *)
(* word changes no other component.                                        *)
(***************************************************************************)
FlagMasks ==
    <<SAMPLE_FLAGS_BEGIN, SAMPLE_FLAGS_END, SAMPLE_FLAGS_SEVERITY_MASK,
      SAMPLE_FLAGS_TYPE_MASK>>

\* begin is bit 0, end bit 1, the severity bits 2-4, the type bits 5-7
FieldPositions ==
    /\ SAMPLE_FLAGS_BEGIN = 1
    /\ SAMPLE_FLAGS_END = 2
    /\ SAMPLE_FLAGS_SEVERITY_MASK = 4 + 8 + 16
    /\ SAMPLE_FLAGS_TYPE_MASK = 32 + 64 + 128
    /\ Severities = 0..4
    /\ AnnotationTypes = 0..6

FieldsDisjoint ==
    \A i, j \in 1..4 : i # j => BitAnd(FlagMasks[i], FlagMasks[j]) = 0

C17_FlagsRoundTrip ==
    /\ FieldPositions
    /\ FieldsDisjoint
    /\ fl.pc \in {"packed", "changed", "unpacked"} =>
          /\ fl.flags \in 0..255
          /\ fl.flags = PackFlags(fl.in)
    /\ fl.pc = "unpacked" =>
          /\ fl.out = fl.in
          /\ fl.out = UnpackFlags(PackFlags(fl.in))

\* begin, alarm and injury were packed after the severity had been replaced
\* in a word that held another severity, and unpacked again
C17_Witness ==
    /\ fl.pc = "unpacked"
    /\ fl.changed = "severity"
    /\ fl.in = [begin |-> TRUE, end |-> FALSE, severity |-> 4, type |-> 6]
    /\ fl.flags = 1 + 16 + 192
    /\ fl.out = fl.in

(***************************************************************************)
(* C18: for every buffer, of any content and any size, every byte range    *)
(* passed to the callback is a view inside the buffer (0 <= start,         *)
(* start + 12 <= end <= size), its fingerprint range is [start + 6,        *)
(* start + 10), it begins with the 4 zero header bytes and ends with the   *)
(* footer FF FF, and every read of the extraction (header compare, footer  *)
(* compare, timestamp decode) is at an index in [0, size).                 *)
(***************************************************************************)
\* the invocation v is a record view inside the buffer
ViewInside(v) ==
    /\ 0 <= v.start
    /\ v.start + 12 <= v.start + v.size
    /\ v.start + v.size <= size
    /\ v.fp = v.start + 6
    /\ v.fsize = 4
    /\ v.fp + v.fsize <= v.start + v.size
    /\ SubSeq(data, v.start + 1, v.start + 4) = header
    /\ SubSeq(data, v.start + v.size - 1, v.start + v.size) = footer

\* no compare or decode has read outside the buffer
ReadsInside == pc # "ub"

ViewsInside ==
    /\ ReadsInside
    /\ \A k \in 1..Len(calls) : ViewInside(calls[k])

\* the claim as stated, for buffers of any size
C18_Original == ViewsInside

\* sizes for which current + 10 and offset + 2 cannot exceed UINT_MAX
BelowWrap == size <= UintMax - 7

\* the same for the buffers of at most UINT_MAX - 7 bytes
C18_ViewsInsideBelowWrap == BelowWrap => ViewsInside

\* a buffer of UINT_MAX bytes with a start marker 12 bytes before its end
\* and no footer after it: the footer search has read past the end
C18_Witness ==
    /\ size = UintMax
    /\ pc = "ub"
    /\ current = size - 12
    /\ previous = size
    /\ ~FooterSearch(current + 10, previous).found
    /\ FooterSearch(current + 10, previous).oob

(***************************************************************************)
(* C19: across one extraction over any buffer the byte ranges delivered to *)
(* the callback are pairwise disjoint and strictly decreasing in start     *)
(* offset: the end of each delivered record is at most the start of the    *)
(* record delivered just before it, because the footer search never reads  *)
(* at or past previous; and current < previous holds at every header test. *)
(***************************************************************************)
\* each delivered range ends at or before the start of the one before it
RangesDescend ==
    \A k \in 1..(Len(calls) - 1) :
        /\ calls[k + 1].start < calls[k].start
        /\ calls[k + 1].start + calls[k + 1].size <= calls[k].start

RangesDisjoint ==
    \A j, k \in 1..Len(calls) :
        j # k => \/ calls[j].start + calls[j].size <= calls[k].start
                 \/ calls[k].start + calls[k].size <= calls[j].start

\* the header test that the next iteration of the outer loop makes
AtHeaderTest == pc = "scan" /\ current > 0

\* the footer search that follows a header found at offset c stays below
\* previous: it leaves the buffer at no compare, and a footer it finds ends
\* at or before previous and after the header
SearchBelowPrevious(c) ==
    LET r == FooterSearch(Uint(c + 10), previous)
    IN  /\ ~r.oob
        /\ r.found => (c + 12 <= r.offset + 2 /\ r.offset + 2 <= previous)

DescendingScan ==
    /\ RangesDescend
    /\ RangesDisjoint
    /\ AtHeaderTest =>
          /\ current - 1 < previous
          /\ Matches(current - 1, header) => SearchBelowPrevious(current - 1)
    /\ \A k \in 1..Len(accepted) : k > 1 => accepted[k] < accepted[k - 1]

\* the claim as stated, for any buffer
C19_Original == DescendingScan

\* the same for the buffers of at most UINT_MAX - 7 bytes
C19_DescendingBelowWrap == BelowWrap => DescendingScan

\* a buffer of UINT_MAX bytes with a start marker 5 bytes before its end
\* and FF FF at offset 4: the search starts at the wrapped offset
\* current + 10 and finds a footer that lies below the header
C19_Witness ==
    /\ size = UintMax
    /\ AtHeaderTest
    /\ current - 1 = size - 5
    /\ Matches(current - 1, header)
    /\ FooterSearch(Uint(current - 1 + 10), previous).found
    /\ FooterSearch(Uint(current - 1 + 10), previous).offset < current - 1

(***************************************************************************)
(* C20: extraction terminates on every finite buffer and every callback    *)
(* behaviour: the cursor current strictly decreases on each iteration of   *)
(* the outer loop and never goes below 0, each footer search is bounded by *)
(* previous, and when the cursor reaches 0 without error, cutoff or stop   *)
(* the result is success.                                                  *)
(***************************************************************************)
\* an iteration of the outer loop lowers the cursor and keeps it at 0 or more
CursorDecreases ==
    (pc = "scan" /\ current > 0) => (current' < current /\ current' >= 0)

\* the loop left with the cursor at 0 returns success
EndIsSuccess ==
    (pc = "scan" /\ current = 0) => (pc' = "done" /\ result' = "SUCCESS")

\* the footer search of the coming iteration is bounded by previous
SearchBounded ==
    (AtHeaderTest /\ Matches(current - 1, header)) =>
        SearchBelowPrevious(current - 1)

\* a started extraction returns
Returns == (pc = "scan") ~> (pc = "done")

\* the claim as stated, for every finite buffer
C20_Original ==
    /\ [][CursorDecreases /\ EndIsSuccess]_vars
    /\ [](current >= 0 /\ SearchBounded)
    /\ Returns

\* the same for the buffers of at most UINT_MAX - 7 bytes
C20_TerminatesBelowWrap ==
    /\ [][BelowWrap => (CursorDecreases /\ EndIsSuccess)]_vars
    /\ [](BelowWrap => (current >= 0 /\ SearchBounded))
    /\ (BelowWrap /\ pc = "scan") ~> (pc = "done")

\* a buffer of UINT_MAX bytes with a start marker 11 bytes before its end:
\* offset + 2 wraps to 0 at the first test of the footer search, which no
\* value of previous ends
C20_Witness ==
    /\ size = UintMax
    /\ pc = "ub"
    /\ current = size - 11
    /\ Uint(current + 10 + 2) = 0
    /\ FooterSearch(current + 10, previous).oob

(***************************************************************************)
(* C21: once extraction meets a record with a footer whose timestamp is    *)
(* <= the cutoff it returns success at once and examines no lower offset,  *)
(* so the result is success even when a start marker without footer lies   *)
(* below; a start marker without footer that is met before any cutoff hit  *)
(* yields the data-format error even when its own timestamp is <= the      *)
(* cutoff, because the footer search comes before the cutoff test.         *)
(***************************************************************************)
\* the coming header test finds a start marker
AtMarker == AtHeaderTest /\ Matches(current - 1, header)

\* the footer search for that marker
FooterOfMarker == FooterSearch(Uint(current - 1 + 10), previous)

\* the 4 bytes at marker + 6 lie in the buffer and decode to at most the
\* cutoff of a device that is not NULL
TimestampAtMost(c) ==
    /\ InBuffer(c + 9)
    /\ devKind # "null"
    /\ array_uint32_le(SubSeq(data, c + 7, c + 10)) <= timestamp

\* a start marker at offset j that has no footer below the offset prev
Footerless(j, prev) ==
    /\ Matches(j, header)
    /\ ~FooterSearch(Uint(j + 10), prev).found

CutoffEnds ==
    (AtMarker /\ FooterOfMarker.found /\ TimestampAtMost(current - 1)) =>
        /\ pc' = "done"
        /\ result' = "SUCCESS"
        /\ current' = current - 1
        /\ calls' = calls
        /\ accepted' = accepted

FooterlessFails ==
    (AtMarker /\ ~FooterOfMarker.found /\ ~FooterOfMarker.oob) =>
        /\ pc' = "done"
        /\ result' = "DATAFORMAT"
        /\ calls' = calls

\* a returned extraction examines nothing more
ReturnedStays ==
    pc = "done" =>
        (pc' = "done" /\ result' = result /\ current' = current
           /\ calls' = calls)

C21_CutoffBeforeLowerRegion ==
    [][CutoffEnds /\ FooterlessFails /\ ReturnedStays]_vars

\* the extraction returned success at a record at or below the cutoff, for
\* which the callback was not invoked, and a start marker without footer
\* lies below that record
C21_Witness ==
    /\ pc = "done"
    /\ result = "SUCCESS"
    /\ current > 0
    /\ Matches(current, header)
    /\ FooterSearch(Uint(current + 10), previous).found
    /\ TimestampAtMost(current)
    /\ \A k \in 1..Len(calls) : calls[k].start # current
    /\ \E j \in 0..(current - 1) : Footerless(j, current)

(***************************************************************************)
(* C22: one packet exchange performs its transport steps in the fixed      *)
(* order settle sleep, RTS high, one write, RTS low, one read, validation, *)
(* and ends in exactly one of success, I/O error, timeout, protocol error  *)
(* or cancelled; the read is issued only after the write transferred       *)
(* exactly the command size, validation runs only after the read returned  *)
(* exactly the response size, and no call issues more than one write or    *)
(* more than one read.                                                     *)
(***************************************************************************)
FixedOrder == <<"sleep", "rts1", "write", "rts0", "read">>

\* the kind of a transport call: sleep, rts1 (RTS high), write, rts0, read
StepKind(e) ==
    IF e.op = "rts" THEN (IF e.arg = 1 THEN "rts1" ELSE "rts0") ELSE e.op

\* the transport calls made so far are the first steps of the fixed order
InFixedOrder ==
    /\ Len(ops) <= Len(FixedOrder)
    /\ \A k \in 1..Len(ops) : StepKind(ops[k]) = FixedOrder[k]

CountOf(kind) == Cardinality({k \in 1..Len(ops) : ops[k].op = kind})

\* the answer is being validated or has been
ValidationReached ==
    ppc = "validate" \/ (ppc = "done" /\ prc \in {"SUCCESS", "PROTOCOL"})

PacketStatuses == {"SUCCESS", "IO", "TIMEOUT", "PROTOCOL", "CANCELLED"}

C22_FixedOrder ==
    ppc \in {"sleep", "rtshigh", "write", "rtslow", "read", "validate",
             "done"} =>
      /\ InFixedOrder
      /\ CountOf("write") <= 1
      /\ CountOf("read") <= 1
      /\ CountOf("read") = 1 =>
            (ops[3].arg = Len(command) /\ ops[3].n = Len(command))
      /\ ValidationReached =>
            (Len(ops) = 5 /\ ops[5].arg = asize /\ ops[5].n = asize)
      /\ ppc = "done" =>
            /\ prc \in PacketStatuses
            /\ prc = "CANCELLED" => ops = <<>>
            /\ prc \in {"IO", "TIMEOUT"} =>
                  /\ Len(ops) \in {3, 5}
                  /\ ops[Len(ops)].n # ops[Len(ops)].arg
                  /\ prc = EXITCODE(ops[Len(ops)].n)
      /\ ppc # "done" => prc = "none"

\* an exchange has made all five transport calls and returned success
C22_Witness ==
    /\ ppc = "done"
    /\ prc = "SUCCESS"
    /\ Len(ops) = 5
    /\ [k \in 1..5 |-> StepKind(ops[k])] = FixedOrder
    /\ ops[3].n = Len(command)
    /\ ops[5].n = asize

(***************************************************************************)
(* C23: reefnet_sensuspro_device_set_fingerprint accepts only the sizes 0  *)
(* and 4: size 4 sets the cutoff to the little-endian value of the 4       *)
(* bytes, size 0 resets it to 0, any other size returns the                *)
(* invalid-argument error and leaves the cutoff unchanged; after any       *)
(* sequence of set_fingerprint and set_timestamp calls the cutoff used by  *)
(* extraction is the value of the last successful call.                    *)
(***************************************************************************)
\* what a set_fingerprint call with the bytes fp does to the cutoff
FingerprintEffect(fp) ==
    IF devKind = "sensuspro" /\ Len(fp) = 4
    THEN /\ setrc' = "SUCCESS"
         /\ timestamp' = fp[1] + 256 * fp[2] + 65536 * fp[3]
                            + 16777216 * fp[4]
    ELSE IF devKind = "sensuspro" /\ Len(fp) = 0
    THEN /\ setrc' = "SUCCESS"
         /\ timestamp' = 0
    ELSE /\ setrc' = "INVALIDARGS"
         /\ timestamp' = timestamp

\* what a set_timestamp call with the value t does to the cutoff
TimestampEffect(t) ==
    IF devKind = "sensuspro"
    THEN setrc' = "SUCCESS" /\ timestamp' = t
    ELSE setrc' = "INVALIDARGS" /\ timestamp' = timestamp

\* only a successful setter call changes the cutoff
OnlySettersChange ==
    timestamp' # timestamp =>
        /\ setrc' = "SUCCESS"
        /\ \/ \E fp \in FingerprintInputs : SetFingerprint(fp)
           \/ \E t \in TimestampInputs : SetTimestamp(t)

C23_LastSuccessfulSetter ==
    [][ /\ \A fp \in FingerprintInputs :
              SetFingerprint(fp) => FingerprintEffect(fp)
        /\ \A t \in TimestampInputs : SetTimestamp(t) => TimestampEffect(t)
        /\ OnlySettersChange ]_vars

\* the cutoff 50, set by a 4-byte fingerprint, survived a rejected call and
\* ended an extraction at a record with the timestamp 50
C23_Witness ==
    /\ devKind = "sensuspro"
    /\ lastSet = "fp4"
    /\ setrc = "INVALIDARGS"
    /\ timestamp = 50
    /\ pc = "done"
    /\ result = "SUCCESS"
    /\ calls = <<>>
    /\ Matches(current, header)
    /\ InBuffer(current + 9)
    /\ array_uint32_le(SubSeq(data, current + 7, current + 10)) = 50

(***************************************************************************)
(* C24: a handshake that fails (short or failed read, or CRC mismatch,     *)
(* which is reported as the protocol error) leaves the stored handshake    *)
(* payload, the device time and the host time unchanged and emits neither  *)
(* a clock nor a device-info event; hence after any sequence of operations *)
(* get_handshake returns the payload of the most recent successful         *)
(* handshake, or all zero bytes if none has succeeded since open.          *)
(***************************************************************************)
\* the step is a handshake that fails
HandshakeFails == spc = "handshake" /\ spc' = "done"

\* the step is a handshake that succeeds with the frame it has read
HandshakeSucceeds ==
    /\ spc = "handshake"
    /\ spc' = "send"
    /\ Len(frame') = HandshakeSize + 2
    /\ frame'[HandshakeSize + 1] + 256 * frame'[HandshakeSize + 2]
          = checksum_crc_ccitt_uint16(SubSeq(frame', 1, HandshakeSize))

FailureKeeps ==
    HandshakeFails =>
        /\ drc' \in {"IO", "TIMEOUT", "PROTOCOL"}
        /\ (Len(frame') = HandshakeSize + 2) = (drc' = "PROTOCOL")
        /\ handshake' = handshake
        /\ devtime' = devtime
        /\ systime' = systime
        /\ events' = events

\* the stored values change only in a handshake that succeeds, and the
\* payload stored is that of the frame read
OnlySuccessStores ==
    (handshake' # handshake \/ devtime' # devtime \/ systime' # systime) =>
        /\ HandshakeSucceeds
        /\ handshake' = SubSeq(frame', 1, HandshakeSize)

\* get_handshake has returned the stored payload
ReturnsStored ==
    (sc.op = "get_handshake" /\ sc.rc = "SUCCESS") => sc.data = handshake

\* the stored payload is all zero or one that arrived with the right CRC
StoredIsVerified ==
    \/ handshake = ZeroHandshake
    \/ \E p \in Payloads : handshake = p

C24_FailedHandshakeKeeps ==
    /\ [][FailureKeeps /\ OnlySuccessStores]_vars
    /\ [](ReturnsStored /\ StoredIsVerified)

\* after a handshake that succeeded and a later one that failed on its CRC
\* with another payload, get_handshake returns the payload stored first
C24_Witness ==
    /\ sc.op = "get_handshake"
    /\ sc.rc = "SUCCESS"
    /\ sc.data # ZeroHandshake
    /\ drc = "PROTOCOL"
    /\ FrameCrcWrong
    /\ FramePayload # sc.data
    /\ EventsOfType("clock") = {}
    /\ EventsOfType("devinfo") = {}

(***************************************************************************)
(* C25: whenever reefnet_sensuspro_handshake returns, with any status, the *)
(* line-break condition it asserted at its start has been cleared again:   *)
(* no exit path (short read, hard read failure, CRC mismatch, success)     *)
(* leaves the break asserted on the transport.                             *)
(***************************************************************************)
\* the handshake of the current operation has returned: its two first
\* transport calls are in the log
HandshakeReturned ==
    /\ Len(dops) >= 2
    /\ dops[1] = [op |-> "break", arg |-> 1, n |-> 0]
    /\ dops[2].op = "read"
    /\ dops[2].arg = HandshakeSize + 2

\* the read of the handshake frame was short or failed
HandshakeReadShort == HandshakeReturned /\ ShortTransfer(dops[2])

\* the call after the read of the frame clears the break
BreakClearedAfterRead ==
    /\ Len(dops) >= 3
    /\ dops[3] = [op |-> "break", arg |-> 0, n |-> 0]

\* the claim as stated, for every exit path
C25_Original == HandshakeReturned => brk = 0

\* the break is cleared on the exit paths after a complete read (CRC
\* mismatch and success), and on those alone
C25_BreakClearedAfterCompleteRead ==
    HandshakeReturned =>
        /\ ~HandshakeReadShort => (brk = 0 /\ BreakClearedAfterRead)
        /\ HandshakeReadShort =>
              (brk = 1 /\ Len(dops) = 2 /\ spc = "done"
                 /\ drc = EXITCODE(dops[2].n))

\* a handshake whose read timed out has returned with the break asserted
C25_Witness ==
    /\ HandshakeReadShort
    /\ dops[2].n \in 0..(HandshakeSize + 1)
    /\ spc = "done"
    /\ drc = "TIMEOUT"
    /\ brk = 1

(***************************************************************************)
(* C26: whenever suunto_vyper2_device_packet returns after having raised   *)
(* the send-enable (RTS) line, with any status, the RTS line has been      *)
(* released again: no exit path (short write, hard write failure, read     *)
(* failure, protocol error, success) leaves RTS high.                      *)
(***************************************************************************)
\* the positions of the serial_set_rts calls of the current exchange
RtsCalls == {k \in 1..Len(ops) : ops[k].op = "rts"}

\* the exchange has raised RTS
RtsRaised == \E k \in RtsCalls : ops[k].arg = 1

\* the last serial_set_rts call of the exchange raised the line
RtsHigh ==
    /\ RtsCalls # {}
    /\ ops[CHOOSE k \in RtsCalls : \A j \in RtsCalls : j <= k].arg = 1

\* the exchange has returned after having raised RTS
ReturnedAfterRts == ppc = "done" /\ RtsRaised

\* the write of the command was short or failed
CommandWriteShort ==
    /\ ops # <<>>
    /\ ops[Len(ops)].op = "write"
    /\ ShortTransfer(ops[Len(ops)])

\* the claim as stated, for every exit path
C26_Original == ReturnedAfterRts => ~RtsHigh

\* RTS is released on the exit paths after a complete write (read failure,
\* protocol error, success), and on those alone
C26_RtsReleasedAfterCompleteWrite ==
    ReturnedAfterRts =>
        /\ ~CommandWriteShort => ~RtsHigh
        /\ CommandWriteShort =>
              (RtsHigh /\ prc = EXITCODE(ops[Len(ops)].n))
        /\ prc \in {"PROTOCOL", "SUCCESS"} => ~RtsHigh

\* an exchange whose write failed has returned with RTS high
C26_Witness ==
    /\ ReturnedAfterRts
    /\ CommandWriteShort
    /\ ops[Len(ops)].n = -1
    /\ prc = "IO"
    /\ RtsHigh

====
